---- MODULE Spec2Model ----
(***************************************************************************)
(* Transaction ingestion and reconciliation pipeline of the relief ledger: *)
(* the process bootstrap (store connection retry loop), the durable store, *)
(* the BlockchainService orchestrator (cache, processed-hash set, store    *)
(* model handle, retry interval, migration), the UPI recorder and the      *)
(* chain monitor.  Every await of the source is a separate step; one call  *)
(* of each entry point is outstanding at a time.                           *)
(*                                                                         *)
(* Spec is the whole system under either bootstrap.  SpecIndex is the      *)
(* process started by index.ts, SpecBoot its connection loop alone         *)
(* (FairSpecBoot with the fairness of attempts and timers), SpecLegacy     *)
(* the earlier bootstrap, which builds the service at load, without a      *)
(* wallet key.  SpecReprobe adds closeDatabase to it and lets the          *)
(* service's interval run out before the connection comes up.  SpecUpi     *)
(* and SpecSim are index.ts without a wallet key: repeated payments, and   *)
(* payments next to addTransaction with its verification timer.  SpecStop  *)
(* is index.ts with a wallet key and stopMonitoring (FairSpecStop with     *)
(* the awaits of a payment resolving).  SpecAid evaluates the aggregators  *)
(* and formatters of amounts on their own.  SpecStocked is index.ts        *)
(* without a wallet key over a collection that earlier runs have filled,   *)
(* SpecIds is SpecUpi with payments of two amounts, SpecTls is             *)
(* connectToDatabase of database.ts await by await.  SpecMonitor is the    *)
(* chain monitor over several blocks with strangers' transfers, listener   *)
(* errors and stopMonitoring, SpecWalk is fetchTransactions block by       *)
(* block over chains of up to MaxHeight blocks, SpecLedger is the earlier  *)
(* bootstrap with a wallet key while the startup backfill is fetching.     *)
(***************************************************************************)
EXTENDS Integers, Sequences, FiniteSets, TLC

(* ---------- program constants ---------- *)
maxRetries == 5
serviceMaxRetries == 15
PageLimit == 50
ReloadLimit == 100
BlocksToCheck == 50
BackoffUnit == 2000

(* ---------- bounds of the model ---------- *)
MaxBlocks == 1
MaxPayments == 1
MaxExternal == 1
MaxInFlight == 2
MaxRepeats == 2
MaxSimulated == 1
MaxList == 3
MaxTenths == 100
\* documents in the collection when the process starts
MaxStock == 51
\* connectToDatabase calls of one process
MaxConnects == 3

Refs == {"UPI-001"}
NoRef == "missing"
Amounts == {500}
ReceiptKinds == {"success", "none"}
Outcomes == {"ok", "throw"}

(* ---------- hashes and identifiers ---------- *)
\* a ledger hash: <<kind, reference, number, timestamp>>
ChainHash(n) == <<"0xchain", "", n, 0>>
ExternalHash(b) == <<"0xext", "", b, 0>>
\* a transfer between two addresses that are not the wallet's
ForeignHash(b) == <<"0xother", "", b, 0>>

\* a hash of the reference and the amount alone
generateTransactionHashNoTimestamp(ref, amount, ts) == <<"0xkeccak", ref, amount, 0>>

\* keccak256 of `${upiReference}-${amount}-${timestamp}`, taken as injective
generateTransactionHash(ref, amount, ts) == <<"0xkeccak", ref, amount, ts>>

LowerKind(k) ==
    CASE k = "0xCHAIN" -> "0xchain"
      [] k = "0xEXT" -> "0xext"
      [] k = "0xKECCAK" -> "0xkeccak"
      [] OTHER -> k

toLowerCase(h) == <<LowerKind(h[1]), h[2], h[3], h[4]>>

\* `UPI-${ref.substring(0,8).toUpperCase()}-${Date.now().toString(36)}`
UpiTxId(ref, nowMs) == <<"UPI", ref, nowMs, 0>>

\* addTransaction: `TX-${random}-${random}` and `0x${random}...${random}`, the
\* n-th call drawing the n-th values
SimTxId(n) == <<"TX", "sim", n, 0>>
SimHash(n) == <<"0xsim", "", n, 0>>

\* `TX-${hash.substring(2,6)}-${hash.substring(len-4)}`
ChainTxId(h) == <<"TX", h[1], h[3], h[4]>>

(* ---------- sequences of records ---------- *)
\* the hashes of a list of records or documents
HashesOf(list) == {list[i].hash : i \in 1..Len(list)}

Range(s) == {s[i] : i \in 1..Len(s)}

Take(s, n) == SubSeq(s, 1, IF Len(s) < n THEN Len(s) ELSE n)

\* Array.prototype.sort with (a, b) => b.timestamp - a.timestamp (stable): an
\* element comes after the newer ones and after the equally old ones before it
SortByTimestampDesc(s) ==
    LET rank == [i \in 1..Len(s) |->
                    1 + Cardinality({j \in 1..Len(s) :
                            \/ s[j].ts > s[i].ts
                            \/ s[j].ts = s[i].ts /\ j < i})]
    IN  [k \in 1..Len(s) |-> s[CHOOSE i \in 1..Len(s) : rank[i] = k]]

\* Map.set(tx.id, tx) for each tx of list, in order, on a map m: a key keeps the
\* place of its first set and holds the value of its last
MapSet(m, list) ==
    LET all == m \o list
        first == {i \in 1..Len(all) : \A j \in 1..(i - 1) : all[j].id # all[i].id}
        place == [i \in first |-> Cardinality({j \in first : j <= i})]
        last == [i \in first |->
                    LET same == {j \in i..Len(all) : all[j].id = all[i].id}
                    IN  CHOOSE j \in same : \A l \in same : l <= j]
    IN  [k \in 1..Cardinality(first) |-> all[last[CHOOSE i \in first : place[i] = k]]]

\* a merge in which the store's record overwrites the cache's
MergeStoreWins(dbTxList, cache) ==
    Take(SortByTimestampDesc(MapSet(MapSet(<<>>, cache), dbTxList)), PageLimit)

MergeById(dbTxList, cache) ==
    Take(SortByTimestampDesc(MapSet(MapSet(<<>>, dbTxList), cache)), PageLimit)

HashCount(list, h) == Cardinality({i \in 1..Len(list) : list[i].hash = h})

(* ---------- amounts: strings are sequences of characters ---------- *)
DigitChars == <<"0", "1", "2", "3", "4", "5", "6", "7", "8", "9">>

IsDigit(c) == \E i \in 1..10 : DigitChars[i] = c

DigitOf(c) == (CHOOSE i \in 1..10 : DigitChars[i] = c) - 1

RECURSIVE Pow(_, _)
Pow(b, k) == IF k = 0 THEN 1 ELSE b * Pow(b, k - 1)

RECURSIVE ToDigits(_)
\* the decimal digits of a natural number
ToDigits(n) ==
    IF n < 10 THEN <<DigitChars[n + 1]>>
    ELSE ToDigits(n \div 10) \o <<DigitChars[(n % 10) + 1]>>

\* String.prototype.includes for a single character
includes(str, c) == \E i \in 1..Len(str) : str[i] = c

\* amount.replace(/[^0-9.]/g, '')
replaceNonNumeric(str) == SelectSeq(str, LAMBDA c : IsDigit(c) \/ c = ".")

RECURSIVE ScanDecimal(_, _)
ScanDecimal(str, acc) ==
    IF str = <<>> THEN acc
    ELSE IF IsDigit(Head(str))
         THEN ScanDecimal(Tail(str),
                  [acc EXCEPT !.n = 10 * @ + DigitOf(Head(str)),
                              !.d = IF acc.dot THEN @ + 1 ELSE @,
                              !.nan = FALSE])
         ELSE IF Head(str) = "." /\ ~acc.dot
              THEN ScanDecimal(Tail(str), [acc EXCEPT !.dot = TRUE])
              ELSE acc

\* parseFloat: the longest decimal prefix, as n / 10^d; NaN when it has no digit
parseFloat(str) == ScanDecimal(str, [n |-> 0, d |-> 0, dot |-> FALSE, nan |-> TRUE])

(* ---------- IEEE-754 doubles, as far as the aggregation needs them ---------- *)
RECURSIVE Log2Up(_, _, _)
Log2Up(n, q, E) == IF n < q * Pow(2, E + 1) THEN E ELSE Log2Up(n, q, E + 1)

RECURSIVE Log2Down(_, _, _)
Log2Down(n, q, E) == IF n * Pow(2, -E) >= q THEN E ELSE Log2Down(n, q, E - 1)

\* floor(log2(n / q)) for n, q > 0
FloorLog2(n, q) == IF n >= q THEN Log2Up(n, q, 0) ELSE Log2Down(n, q, -1)

RECURSIVE Pow2Mod(_, _)
Pow2Mod(s, q) == IF s = 0 THEN 1 % q ELSE (2 * Pow2Mod(s - 1, q)) % q

\* the double nearest n / 10^d is m / 2^s with s = 52 - floor(log2(n / 10^d)):
\* the signed error 10^d m - n 2^s (never a tie: 2^d divides n 2^s but not 10^d / 2)
DoubleError(n, d) ==
    LET q == Pow(10, d)
        x == ((n % q) * Pow2Mod(52 - FloorLog2(n, q), q)) % q
    IN  IF 2 * x < q THEN -x ELSE q - x

\* the double product parseFloat("n/10^d") * 10^k, k >= d, differs from the
\* decimal n 10^(k-d): its error |r| 10^(k-d) / 2^s reaches half the spacing
\* 2^(E2-52) of the doubles around the product
ProductInexact(n, d, k) ==
    IF n = 0 THEN FALSE
    ELSE LET r == DoubleError(n, d)
             E == FloorLog2(n, Pow(10, d))
             E2 == FloorLog2(n * Pow(10, k - d), 1)
         IN  r # 0 /\ (IF r < 0 THEN -r ELSE r) * Pow(10, k - d) >= Pow(2, E2 - E - 1)

\* n / 10^d times 10^k in hundredths (whole hundredths only)
Hundredths(n, d, k) ==
    IF k + 2 >= d THEN n * Pow(10, k + 2 - d) ELSE n \div Pow(10, d - k - 2)

\* a JavaScript number: v hundredths, inexact when the double is off that decimal
Zero == [nan |-> FALSE, v |-> 0, inexact |-> FALSE]

Plus(total, n, d, k) ==
    [nan |-> total.nan,
     v |-> total.v + Hundredths(n, d, k),
     inexact |-> total.inexact \/ (k >= d /\ ProductInexact(n, d, k))]

RECURSIVE Pad(_, _)
\* the last w decimal digits of n, with leading zeros
Pad(n, w) == IF w = 0 THEN <<>> ELSE Pad(n \div 10, w - 1) \o <<DigitChars[(n % 10) + 1]>>

\* (v / 10^shift).toFixed(digits) for v >= 0.  The nearest decimal wins; at a
\* decimal tie the double v / 10^shift decides, which lies above or below it
toFixed(v, shift, digits) ==
    LET unit == Pow(10, shift - digits)
        low == v \div unit
        rest == v % unit
        up == IF 2 * rest # unit THEN 2 * rest > unit
              ELSE DoubleError((2 * low + 1) * 5, digits + 1) >= 0
        scaled == IF up THEN low + 1 ELSE low
    IN  ToDigits(scaled \div Pow(10, digits))
        \o (IF digits > 0 THEN <<".">> \o Pad(scaled % Pow(10, digits), digits) ELSE <<>>)

\* BlockchainService.formatAidAmount
formatAidAmount(amount) ==
    IF amount.nan THEN <<"$", "N", "a", "N">>
    ELSE IF amount.v >= 100000000 THEN <<"$">> \o toFixed(amount.v, 8, 1) \o <<"M">>
    ELSE IF amount.v >= 100000 THEN <<"$">> \o toFixed(amount.v, 5, 0) \o <<"K">>
    ELSE <<"$">> \o toFixed(amount.v, 2, 2)

\* UPIPaymentService.recordUPIPayment: the display of an amount in rupees
amountDisplay(amount) ==
    IF amount >= 1000000 THEN <<"Rs">> \o toFixed(100 * amount, 8, 1) \o <<"M">>
    ELSE IF amount >= 1000 THEN <<"Rs">> \o toFixed(100 * amount, 5, 0) \o <<"K">>
    ELSE <<"Rs">> \o ToDigits(amount)

\* PolygonService.parseTransaction: the display of a transfer of w / 10^4 MATIC
maticDisplay(w) ==
    IF w \div 10000 >= 1000000 THEN <<"$">> \o toFixed(w, 8, 1) \o <<"M">>
    ELSE IF w \div 10000 >= 1000 THEN <<"$">> \o toFixed(w, 8, 0) \o <<"K">>
    ELSE toFixed(w, 4, 4) \o <<" ", "M", "A", "T", "I", "C">>

\* the total after two runs of an aggregation loop, one continuing the other
Both(a, b) ==
    [nan |-> a.nan \/ b.nan, v |-> a.v + b.v, inexact |-> a.inexact \/ b.inexact]

RECURSIVE getTotalAid(_)
\* TransactionModel.getTotalAid over the documents of the collection
getTotalAid(docs) ==
    IF docs = <<>> THEN Zero
    ELSE IF Len(docs) > 1
    THEN LET half == Len(docs) \div 2
         IN  Both(getTotalAid(SubSeq(docs, 1, half)),
                  getTotalAid(SubSeq(docs, half + 1, Len(docs))))
    ELSE LET total == Zero
             tx == docs[1]
             amount == parseFloat(replaceNonNumeric(tx.amount))
         IN  IF tx.amountInINR # 0 THEN [total EXCEPT !.v = @ + 100 * tx.amountInINR]
             ELSE IF amount.nan THEN total
             ELSE IF includes(tx.amount, "M") THEN Plus(total, amount.n, amount.d, 6)
             ELSE IF includes(tx.amount, "K") THEN Plus(total, amount.n, amount.d, 3)
             ELSE Plus(total, amount.n, amount.d, 0)

RECURSIVE calculateTotalAid(_)
\* BlockchainService.calculateTotalAid over the cache
calculateTotalAid(list) ==
    IF list = <<>> THEN Zero
    ELSE IF Len(list) > 1
    THEN LET half == Len(list) \div 2
         IN  Both(calculateTotalAid(SubSeq(list, 1, half)),
                  calculateTotalAid(SubSeq(list, half + 1, Len(list))))
    ELSE LET total == Zero
             tx == list[1]
             amount == parseFloat(replaceNonNumeric(tx.amount))
         IN  IF amount.nan THEN [total EXCEPT !.nan = TRUE]
             ELSE IF includes(tx.amount, "M") THEN Plus(total, amount.n, amount.d, 6)
             ELSE IF includes(tx.amount, "K") THEN Plus(total, amount.n, amount.d, 3)
             ELSE Plus(total, amount.n, amount.d, -4)

(* ---------- the durable store ---------- *)
\* TransactionModel.findAll(limit): sort({timestamp: -1}).limit(limit)
findAll(docs, limit) == Take(SortByTimestampDesc(docs), limit)

\* TransactionModel.findByHash: TRUE iff a document with that hash exists
findByHash(docs, h) == \E i \in 1..Len(docs) : docs[i].hash = h

\* the document insert() stores for a record
Document(tx, amountInINR) ==
    [id |-> tx.id, hash |-> tx.hash, amount |-> tx.amount, ts |-> tx.ts,
     status |-> tx.status, amountInINR |-> amountInINR]

\* a stored document as a BlockchainTransaction
toBlockchainTransaction(doc) ==
    [id |-> doc.id, hash |-> doc.hash, amount |-> doc.amount, ts |-> doc.ts,
     status |-> doc.status]

toBlockchainTransactions(docs) ==
    [i \in 1..Len(docs) |-> toBlockchainTransaction(docs[i])]

\* insertOne under the unique index on hash: the outcome and the new collection
InsertOutcome(docs, unique, doc) ==
    IF unique /\ findByHash(docs, doc.hash) THEN "E11000" ELSE "inserted"

insert(docs, unique, doc) ==
    IF InsertOutcome(docs, unique, doc) = "inserted" THEN Append(docs, doc) ELSE docs

(* ---------- the ledger network ---------- *)
\* the value of a transfer in 1/10^4 MATIC: the recorder sends '0.0001' to the
\* wallet itself, a third party sends 1 MATIC
TransferValue(h) == IF h[1] = "0xchain" THEN 1 ELSE 10000

\* the wallet's address as connectWallet reports it (checksum case), and the
\* addresses the node reports for the parties of a transfer
WalletAddress == "0xAbC"

LowerAddress(a) == IF a = "0xAbC" THEN "0xabc" ELSE a

TxFrom(h) ==
    CASE h[1] = "0xchain" -> "0xAbC"
      [] h[1] = "0xext" -> "0xd0e"
      [] OTHER -> "0xf00"

TxTo(h) ==
    CASE h[1] = "0xchain" -> "0xAbC"
      [] h[1] = "0xext" -> "0xabc"
      [] OTHER -> "0xbaa"

\* tx.from or tx.to is the wallet, compared in lower case
IsWalletTx(h) ==
    \/ LowerAddress(TxFrom(h)) = LowerAddress(WalletAddress)
    \/ LowerAddress(TxTo(h)) = LowerAddress(WalletAddress)

\* a parser that takes a receipt of either status for a success
parseTransactionAnyReceipt(h, receipt, blockNumber, nowMs) ==
    [id |-> ChainTxId(h),
     hash |-> h,
     amount |-> maticDisplay(TransferValue(h)),
     ts |-> IF receipt # "none" THEN blockNumber ELSE nowMs,
     status |-> IF receipt # "none" THEN "verified" ELSE "pending"]

\* parseTransaction: the canonical record of a wallet transaction
parseTransaction(h, receipt, blockNumber, nowMs) ==
    [id |-> ChainTxId(h),
     hash |-> h,
     amount |-> maticDisplay(TransferValue(h)),
     ts |-> IF receipt # "none" THEN blockNumber ELSE nowMs,
     status |-> IF receipt = "success" THEN "verified" ELSE "pending"]

RECURSIVE ParseAll(_, _, _, _)
ParseAll(hs, receipt, blockNumber, nowMs) ==
    IF hs = <<>> THEN <<>>
    ELSE (IF IsWalletTx(Head(hs))
          THEN <<parseTransaction(Head(hs), receipt, blockNumber, nowMs)>>
          ELSE <<>>)
         \o ParseAll(Tail(hs), receipt, blockNumber, nowMs)

RECURSIVE WalkBack(_, _, _, _, _)
\* the block walk of fetchTransactions: i blocks already examined
WalkBack(blocks, latest, i, receipt, nowMs) ==
    IF i >= (IF BlocksToCheck < latest THEN BlocksToCheck ELSE latest) THEN <<>>
    ELSE ParseAll(blocks[latest - i], receipt, latest - i, nowMs)
         \o WalkBack(blocks, latest, i + 1, receipt, nowMs)

fetchTransactions(blocks, latest, limit, receipt, nowMs) ==
    Take(WalkBack(blocks, latest, 0, receipt, nowMs), limit)

(* ---------- BlockchainService helpers ---------- *)
\* a probe that keeps whatever verdict the service already holds
ensureMongoDBModelStale(model, database) == model

\* ensureMongoDBModel: the store model after re-probing getDatabase()
ensureMongoDBModel(model, database) ==
    IF ~model THEN (IF database THEN TRUE ELSE FALSE)
    ELSE (IF ~database THEN FALSE ELSE model)

\* a wait that does not grow with the attempt number
waitTimeFlat(retryCount) == BackoffUnit

\* the startup loop's wait after the n-th failed attempt
waitTime(retryCount) == retryCount * BackoffUnit


(* ---------- state ---------- *)
VARIABLES
    conn,               \* database.ts: the connectToDatabase call and the module's client
    variant,            \* which bootstrap runs: "index" (retry loop) or "legacy"
    walletKey,          \* POLYGON_PRIVATE_KEY is configured
    boot,               \* the app.listen callback: pc, retryCount, wait
    db,                 \* database.ts: db is non-null
    uniqueIndex,        \* the unique index on hash was created
    store,              \* documents of the transactions collection, in insertion order
    service,            \* index.ts: blockchainService is non-null
    transactionModel,   \* BlockchainService.transactionModel is non-null
    retry,              \* the service's store-retry interval: active, retryCount;
                        \* others: the tick counts of earlier intervals still running
    chainPc,            \* connectToBlockchain: "none", "wallet", "balance", "done"
    wallet,             \* PolygonService.walletAddress is non-null
    isRealBlockchainConnected,
    monitorOn,          \* a 'block' listener is registered
    blockEvents,        \* block numbers emitted to the listener and not yet handled
    blocks,             \* the ledger: per block, the wallet's transactions in order
    mempool,            \* submitted and not yet mined
    extCount,           \* third-party transfers to the wallet so far
    transactions,       \* BlockchainService.transactions (the cache)
    processedTransactionHashes,
    pay,                \* the outstanding recordUPIPayment call
    payCount,
    get,                \* the outstanding getTransactions call
    mig,                \* the outstanding migrateTransactionsToMongoDB call
    load,               \* loadRealTransactions calls: "startup" and "read"
    add,                \* addTransaction: the outstanding call, the verification timers
    calc,               \* an evaluation of the aggregators and formatters on given amounts
    walk,               \* PolygonService.fetchTransactions: one call, block by block
    hist                \* history of observable events (no effect on the program)

sysVars == <<walk, conn, add, variant, walletKey, boot, db, uniqueIndex, store, service,
             transactionModel, retry, chainPc, wallet, isRealBlockchainConnected,
             monitorOn, blockEvents, blocks, mempool, extCount, transactions,
             processedTransactionHashes, pay, payCount, get, mig, load>>

progVars == <<calc, sysVars>>

vars == <<progVars, hist>>

now == Len(blocks)

IdlePay == [pc |-> "idle", ref |-> "", amount |-> 0, ts |-> 0, hash |-> <<>>, rec |-> <<>>]
IdleGet == [pc |-> "idle", mode |-> "", why |-> "", dbTx |-> <<>>, count |-> 0,
            result |-> <<>>, totalTransactions |-> 0, totalAid |-> <<>>,
            walletAddress |-> FALSE, isRealBlockchain |-> FALSE,
            n0 |-> 0, mustShow |-> {}, due |-> {}, late |-> {}]
IdleMig == [pc |-> "idle", arr |-> <<>>, idx |-> 0, alias |-> FALSE]
IdleLoad == [pc |-> "idle", latest |-> 0]
\* no connectToDatabase call yet: client = null
IdleConn == [pc |-> "idle", scheme |-> "", tried |-> <<>>, client |-> FALSE,
             outcome |-> "none", calls |-> 0]
\* no fetchTransactions walk observed
IdleWalk == [pc |-> "idle", layout |-> "", latest |-> 0, limit |-> 0, failing |-> {},
             after |-> 0, i |-> 0, examined |-> <<>>, out |-> <<>>]
IdleAdd == [pc |-> "idle", rec |-> <<>>, count |-> 0, timers |-> {}]

InitHist ==
    [raced |-> {},              \* submitted hashes a batch met before their registration
     lateDelivered |-> {},      \* hashes of returned payments a later batch contained
     unseen |-> {},             \* records returned without the store, not yet read
     needsStore |-> {},         \* hashes accepted while the store could not take them
     payOutcome |-> "none",     \* how the latest record request ended
     issued |-> <<>>,           \* the records the recorder built, with their requests
                                \* and block numbers
     stoppedWaiting |-> <<>>,   \* the transfer awaited when the monitor was stopped
     handedBack |-> {},         \* hashes of the records returned to the callers
     getThrew |-> FALSE,        \* a list request failed inside the service
     placed |-> [w \in {"startup", "read"} |-> {}],
                                \* per backfill in flight: hashes put in the cache since
     failedBlocks |-> {},       \* blocks whose listener ended in its catch
     batch |-> <<>>,            \* the latest batch handed to the monitor callback
     rejected |-> FALSE]        \* a request found no service since the last attempt

IdleBoot == [pc |-> "done", retryCount |-> 0, wait |-> 0, prevWait |-> 0]

IdleCalc == [pc |-> "idle", amounts |-> <<>>, value |-> 0, store |-> Zero, cache |-> Zero,
             shown |-> <<>>]

\* the process after module load, the collection holding docs
InitProgramOver(docs) ==
    /\ variant \in {"index", "legacy"}
    /\ walletKey \in BOOLEAN
    /\ boot = [IdleBoot EXCEPT !.pc = "attempt"]
    /\ db = FALSE
    /\ uniqueIndex = FALSE
    /\ store = docs
    /\ service = (variant = "legacy")
    /\ transactionModel = FALSE
    /\ retry = [active |-> (variant = "legacy"), retryCount |-> 0, others |-> <<>>]
    /\ chainPc = IF variant = "legacy" THEN "wallet" ELSE "none"
    /\ wallet = FALSE
    /\ isRealBlockchainConnected = FALSE
    /\ monitorOn = FALSE
    /\ blockEvents = {}
    /\ blocks = <<>>
    /\ mempool = <<>>
    /\ extCount = 0
    /\ transactions = <<>>
    /\ processedTransactionHashes = {}
    /\ pay = IdlePay
    /\ payCount = 0
    /\ get = IdleGet
    /\ mig = IdleMig
    /\ load = [w \in {"startup", "read"} |-> IdleLoad]
    /\ add = IdleAdd
    /\ conn = IdleConn
    /\ walk = IdleWalk
    /\ hist = InitHist

\* a first deployment: the collection is empty
InitProgram == InitProgramOver(<<>>)

Init == InitProgram /\ calc = IdleCalc

(* ---------- cache writes, seen by a running migration loop ---------- *)
\* the hashes hs enter the cache: noted for every backfill in flight
PlacedDuring(p, hs) ==
    [w \in {"startup", "read"} |-> IF load[w].pc # "idle" THEN p[w] \cup hs ELSE p[w]]

\* this.transactions = list: the migration loop keeps iterating the old array
Reassigned(m) == IF m.pc = "idle" THEN m ELSE [m EXCEPT !.alias = FALSE]

\* this.transactions.unshift(rec): mutates the array the loop may be iterating
Unshifted(m, rec) == IF m.alias THEN [m EXCEPT !.arr = <<rec>> \o @] ELSE m

(* ---------- bound on concurrency ---------- *)
InFlight ==
    (IF pay.pc # "idle" THEN 1 ELSE 0) + (IF get.pc # "idle" THEN 1 ELSE 0)
    + (IF mig.pc # "idle" THEN 1 ELSE 0) + (IF load["startup"].pc # "idle" THEN 1 ELSE 0)
    + Cardinality(blockEvents) + (IF add.pc # "idle" THEN 1 ELSE 0)

\* the interval is counting down to its give-up with no database in sight
CountingDown == retry.active /\ retry.retryCount > 0 /\ ~db

CanStart == InFlight < MaxInFlight /\ ~CountingDown


(* ---------- database.ts ---------- *)
\* createIndexes: the unique index on hash exists afterwards unless the build
\* failed (an error, or two documents with one hash); the failure is only logged
createIndexes(docs, outcome) ==
    outcome = "ok" /\ \A i, j \in 1..Len(docs) : docs[i].hash = docs[j].hash => i = j

\* no store operation is outstanding (what an operation dispatched on a closing
\* client returns is the driver's business)
StoreQuiet ==
    /\ get.pc \notin {"findAll", "count", "sum"} /\ pay.pc \notin {"find", "insert"}
    /\ mig.pc = "idle" /\ boot.pc # "indexes"

\* closeDatabase: the client is closed and the handle dropped; getDatabase
\* returns null from then on
closeDatabase ==
    /\ db /\ StoreQuiet
    /\ db' = FALSE
    /\ UNCHANGED <<walk, conn, calc, add, variant, walletKey, boot, uniqueIndex, store, service,
                   transactionModel, retry, chainPc, wallet, isRealBlockchainConnected,
                   monitorOn, blockEvents, blocks, mempool, extCount, transactions,
                   processedTransactionHashes, pay, payCount, get, mig, load, hist>>

(* ---------- BlockchainService: construction, store model, retry interval ---------- *)
\* migrateTransactionsToMongoDB up to its first await
StartedMigration(model, cache) ==
    IF model /\ cache # <<>>
    THEN [pc |-> "find", arr |-> cache, idx |-> 1, alias |-> TRUE]
    ELSE IdleMig

\* initializeMongoDB: the intervals it leaves behind.  Without a database handle
\* it starts a new interval; the handle of an earlier one is not kept, so an
\* earlier interval that is still active goes on ticking
initializeMongoDB(database, interval) ==
    IF database THEN interval
    ELSE [active |-> TRUE, retryCount |-> 0,
          others |-> IF interval.active
                     THEN Append(interval.others, interval.retryCount)
                     ELSE interval.others]

\* setInterval handles of the service that were not cleared
ActiveIntervals(interval) == (IF interval.active THEN 1 ELSE 0) + Len(interval.others)

\* new BlockchainService(): initializeMongoDB, then connectToBlockchain starts
ConstructService(database) ==
    /\ service' = TRUE
    /\ transactionModel' = database
    /\ retry' = initializeMongoDB(database, retry)
    /\ chainPc' = "wallet"

\* the connection attempts are over and no call has reached the service yet
Untouched ==
    /\ boot.pc = "done" /\ payCount = 0 /\ get.pc = "idle" /\ chainPc = "wallet"

\* the earlier bootstrap builds the service at load: its interval can run out while
\* the one connection attempt is still pending
Unconnected ==
    /\ boot.pc \in {"attempt", "done"} /\ payCount = 0 /\ get.pc = "idle"
    /\ chainPc = "wallet"

\* a tick whose success branch leaves out clearInterval
RetryTickKeepsRunning(quiet) ==
    /\ service /\ retry.active
    /\ IF db THEN mig.pc = "idle" /\ CanStart ELSE quiet
    /\ IF db
       THEN /\ transactionModel' = TRUE
            /\ mig' = StartedMigration(TRUE, transactions)
            /\ retry' = [retry EXCEPT !.retryCount = @ + 1]
       ELSE /\ retry' = [retry EXCEPT !.active = retry.retryCount + 1 < serviceMaxRetries,
                                      !.retryCount = @ + 1]
            /\ UNCHANGED <<transactionModel, mig>>
    /\ UNCHANGED <<walk, conn, calc, add, variant, walletKey, boot, db, uniqueIndex, store, service, chainPc,
                   wallet, isRealBlockchainConnected, monitorOn, blockEvents, blocks,
                   mempool, extCount, transactions, processedTransactionHashes, pay,
                   payCount, get, load, hist>>

\* one tick of the interval started by initializeMongoDB.  A tick that finds no
\* database changes nothing but the counter and commutes with every other step:
\* the countdown to the give-up is taken in one run, before the first call, once
\* no connection attempt is pending
RetryTickWhen(quiet) ==
    /\ service /\ retry.active
    /\ IF db THEN mig.pc = "idle" /\ CanStart ELSE quiet
    /\ IF db
       THEN /\ transactionModel' = TRUE
            /\ mig' = StartedMigration(TRUE, transactions)
            /\ retry' = [retry EXCEPT !.active = FALSE, !.retryCount = @ + 1]
       ELSE /\ retry' = [retry EXCEPT !.active = retry.retryCount + 1 < serviceMaxRetries,
                                      !.retryCount = @ + 1]
            /\ UNCHANGED <<transactionModel, mig>>
    /\ UNCHANGED <<walk, conn, calc, add, variant, walletKey, boot, db, uniqueIndex, store, service, chainPc,
                   wallet, isRealBlockchainConnected, monitorOn, blockEvents, blocks,
                   mempool, extCount, transactions, processedTransactionHashes, pay,
                   payCount, get, load, hist>>

RetryTick == RetryTickWhen(Untouched)

\* one tick of the oldest interval that a later initializeMongoDB call left running
RetryTickEarlier ==
    /\ service /\ retry.others # <<>>
    /\ db => (mig.pc = "idle" /\ CanStart)
    /\ IF db
       THEN /\ transactionModel' = TRUE
            /\ mig' = StartedMigration(TRUE, transactions)
            /\ retry' = [retry EXCEPT !.others = Tail(@)]
       ELSE /\ retry' = [retry EXCEPT !.others =
                            IF Head(@) + 1 < serviceMaxRetries
                            THEN <<Head(@) + 1>> \o Tail(@) ELSE Tail(@)]
            /\ UNCHANGED <<transactionModel, mig>>
    /\ UNCHANGED <<walk, conn, calc, add, variant, walletKey, boot, db, uniqueIndex, store, service, chainPc,
                   wallet, isRealBlockchainConnected, monitorOn, blockEvents, blocks,
                   mempool, extCount, transactions, processedTransactionHashes, pay,
                   payCount, get, load, hist>>

(* ---------- index.ts: the app.listen callback with the retry loop ---------- *)
BootAttemptOk ==
    /\ variant = "index" /\ boot.pc = "attempt"
    /\ db' = TRUE
    /\ \E outcome \in Outcomes : uniqueIndex' = createIndexes(store, outcome)
    /\ ConstructService(TRUE)
    /\ boot' = [IdleBoot EXCEPT !.pc = "settle"]
    /\ hist' = [hist EXCEPT !.rejected = FALSE]
    /\ UNCHANGED <<walk, conn, calc, add, variant, walletKey, store, wallet, isRealBlockchainConnected,
                   monitorOn, blockEvents, blocks, mempool, extCount, transactions,
                   processedTransactionHashes, pay, payCount, get, mig, load>>

\* a loop that gives up without building the service
BootAttemptFailStops ==
    /\ variant = "index" /\ boot.pc = "attempt"
    /\ LET n == boot.retryCount + 1 IN
       IF n < maxRetries
       THEN boot' = [boot EXCEPT !.pc = "wait", !.retryCount = n,
                                 !.wait = waitTime(n), !.prevWait = boot.wait]
       ELSE boot' = IdleBoot
    /\ UNCHANGED <<walk, conn, calc, add, variant, walletKey, db, uniqueIndex, store, service, transactionModel,
                   retry, chainPc, wallet, isRealBlockchainConnected, monitorOn,
                   blockEvents, blocks, mempool, extCount, transactions,
                   processedTransactionHashes, pay, payCount, get, mig, load, hist>>

BootAttemptFail ==
    /\ variant = "index" /\ boot.pc = "attempt"
    /\ LET n == boot.retryCount + 1 IN
       IF n < maxRetries
       THEN /\ boot' = [boot EXCEPT !.pc = "wait", !.retryCount = n,
                                    !.wait = waitTime(n), !.prevWait = boot.wait]
            /\ UNCHANGED <<service, transactionModel, retry, chainPc>>
       ELSE /\ boot' = IdleBoot
            /\ ConstructService(FALSE)
    /\ hist' = [hist EXCEPT !.rejected = FALSE]
    /\ UNCHANGED <<walk, conn, calc, add, variant, walletKey, db, uniqueIndex, store, wallet,
                   isRealBlockchainConnected, monitorOn, blockEvents, blocks, mempool,
                   extCount, transactions, processedTransactionHashes, pay, payCount,
                   get, mig, load>>

BootWaitDone ==
    /\ variant = "index" /\ boot.pc = "wait"
    /\ boot' = [boot EXCEPT !.pc = "attempt"]
    /\ UNCHANGED <<walk, conn, calc, add, variant, walletKey, db, uniqueIndex, store, service, transactionModel,
                   retry, chainPc, wallet, isRealBlockchainConnected, monitorOn,
                   blockEvents, blocks, mempool, extCount, transactions,
                   processedTransactionHashes, pay, payCount, get, mig, load, hist>>

\* a request arrives while blockchainService is still null: getBlockchainService throws
RequestBeforeService ==
    /\ ~service /\ ~hist.rejected
    /\ hist' = [hist EXCEPT !.rejected = TRUE]
    /\ UNCHANGED progVars

(* ---------- the earlier bootstrap: service built at load, one attempt ---------- *)
\* connectToDatabase sets db and goes on to build the indexes
LegacyAttemptOk ==
    /\ variant = "legacy" /\ boot.pc = "attempt"
    /\ db' = TRUE
    /\ boot' = [boot EXCEPT !.pc = "indexes"]
    /\ UNCHANGED <<walk, conn, calc, add, variant, walletKey, uniqueIndex, store, service, transactionModel,
                   retry, chainPc, wallet, isRealBlockchainConnected, monitorOn,
                   blockEvents, blocks, mempool, extCount, transactions,
                   processedTransactionHashes, pay, payCount, get, mig, load, hist>>

\* createIndexes ends and connectToDatabase returns to the callback
LegacyIndexes(outcome) ==
    /\ variant = "legacy" /\ boot.pc = "indexes"
    /\ uniqueIndex' = createIndexes(store, outcome)
    /\ boot' = [boot EXCEPT !.pc = "settle"]
    /\ UNCHANGED <<walk, conn, calc, add, variant, walletKey, db, store, service, transactionModel, retry,
                   chainPc, wallet, isRealBlockchainConnected, monitorOn, blockEvents,
                   blocks, mempool, extCount, transactions, processedTransactionHashes,
                   pay, payCount, get, mig, load, hist>>

LegacyAttemptFail ==
    /\ variant = "legacy" /\ boot.pc = "attempt"
    /\ boot' = IdleBoot
    /\ UNCHANGED <<walk, conn, calc, add, variant, walletKey, db, uniqueIndex, store, service, transactionModel,
                   retry, chainPc, wallet, isRealBlockchainConnected, monitorOn,
                   blockEvents, blocks, mempool, extCount, transactions,
                   processedTransactionHashes, pay, payCount, get, mig, load, hist>>

\* reinitializeMongoDB, called one second after the connection succeeded
reinitializeMongoDB ==
    /\ variant = "legacy" /\ boot.pc = "settle"
    /\ mig.pc = "idle" /\ CanStart
    /\ transactionModel' = db
    /\ retry' = initializeMongoDB(db, retry)
    /\ mig' = StartedMigration(db, transactions)
    /\ boot' = [boot EXCEPT !.pc = "settle2"]
    /\ UNCHANGED <<walk, conn, calc, add, variant, walletKey, db, uniqueIndex, store, service, chainPc, wallet,
                   isRealBlockchainConnected, monitorOn, blockEvents, blocks, mempool,
                   extCount, transactions, processedTransactionHashes, pay, payCount,
                   get, load, hist>>

\* the explicit migrateTransactionsToMongoDB call half a second later
LegacyMigrate ==
    /\ variant = "legacy" /\ boot.pc = "settle2"
    /\ mig.pc = "idle" /\ CanStart
    /\ transactionModel' = ensureMongoDBModel(transactionModel, db)
    /\ mig' = StartedMigration(transactionModel', transactions)
    /\ boot' = IdleBoot
    /\ UNCHANGED <<walk, conn, calc, add, variant, walletKey, db, uniqueIndex, store, service, retry, chainPc,
                   wallet, isRealBlockchainConnected, monitorOn, blockEvents, blocks,
                   mempool, extCount, transactions, processedTransactionHashes, pay,
                   payCount, get, load, hist>>


(* ---------- the ledger network and the chain monitor ---------- *)
\* the network mines a block: everything submitted, possibly a third-party
\* transfer to the wallet, and (others) possibly a transfer between strangers
MineBlockWithin(limit, others) ==
    /\ Len(blocks) < limit
    /\ monitorOn => CanStart
    /\ \E ext \in BOOLEAN, other \in others :
          /\ ext => (walletKey /\ extCount < MaxExternal)
          /\ blocks' = Append(blocks,
                 (IF other THEN <<ForeignHash(Len(blocks) + 1)>> ELSE <<>>)
                 \o mempool
                 \o (IF ext THEN <<ExternalHash(Len(blocks) + 1)>> ELSE <<>>))
          /\ extCount' = IF ext THEN extCount + 1 ELSE extCount
    /\ mempool' = <<>>
    /\ blockEvents' = IF monitorOn THEN blockEvents \cup {Len(blocks) + 1} ELSE blockEvents
    /\ UNCHANGED <<walk, conn, calc, add, variant, walletKey, boot, db, uniqueIndex, store, service,
                   transactionModel, retry, chainPc, wallet, isRealBlockchainConnected,
                   monitorOn, transactions, processedTransactionHashes, pay, payCount,
                   get, mig, load, hist>>

MineBlock == MineBlockWithin(MaxBlocks, {FALSE})

\* connectToBlockchain: connectWallet resolves
ConnectWallet ==
    /\ chainPc = "wallet" /\ ~CountingDown
    /\ IF walletKey
       THEN /\ wallet' = TRUE
            /\ isRealBlockchainConnected' = TRUE
            /\ chainPc' = "balance"
       ELSE /\ chainPc' = "done"
            /\ UNCHANGED <<wallet, isRealBlockchainConnected>>
    /\ UNCHANGED <<walk, conn, calc, add, variant, walletKey, boot, db, uniqueIndex, store, service,
                   transactionModel, retry, monitorOn, blockEvents, blocks, mempool,
                   extCount, transactions, processedTransactionHashes, pay, payCount,
                   get, mig, load, hist>>

\* getBalance resolves: startMonitoring registers the listener, the backfill starts
StartMonitoring ==
    /\ chainPc = "balance" /\ CanStart
    /\ monitorOn' = TRUE
    /\ load' = [load EXCEPT !["startup"] = [pc |-> "count", latest |-> 0]]
    /\ chainPc' = "done"
    /\ UNCHANGED <<walk, conn, calc, add, variant, walletKey, boot, db, uniqueIndex, store, service,
                   transactionModel, retry, wallet, isRealBlockchainConnected,
                   blockEvents, blocks, mempool, extCount, transactions,
                   processedTransactionHashes, pay, payCount, get, mig, hist>>

\* stopMonitoring with removeAllListeners(): the listener a pending confirmation
\* waits on goes as well
stopMonitoringAllListeners ==
    /\ service
    /\ monitorOn' = FALSE
    /\ pay' = IF pay.pc = "sending" THEN [pay EXCEPT !.pc = "stalled"] ELSE pay
    /\ hist' = [hist EXCEPT !.stoppedWaiting = IF pay.pc = "sending" THEN pay.hash ELSE @]
    /\ UNCHANGED <<walk, conn, calc, add, variant, walletKey, boot, db, uniqueIndex, store, service,
                   transactionModel, retry, chainPc, wallet, isRealBlockchainConnected,
                   blockEvents, blocks, mempool, extCount, transactions,
                   processedTransactionHashes, payCount, get, mig, load>>

\* stopMonitoring: removeAllListeners('block'); listeners already running for an
\* emitted block go on to their callback
stopMonitoring ==
    /\ service
    /\ monitorOn' = FALSE
    /\ hist' = [hist EXCEPT !.stoppedWaiting = IF pay.pc = "sending" THEN pay.hash ELSE @]
    /\ UNCHANGED <<walk, conn, calc, add, variant, walletKey, boot, db, uniqueIndex, store, service,
                   transactionModel, retry, chainPc, wallet, isRealBlockchainConnected,
                   blockEvents, blocks, mempool, extCount, transactions,
                   processedTransactionHashes, pay, payCount, get, mig, load>>

\* h is the hash of a transfer the recorder submitted
Submitted(h) == h[1] = "0xchain"

\* the recordUPIPayment call that registered h has returned
Returned(h) ==
    /\ toLowerCase(h) \in processedTransactionHashes
    /\ ~(pay.pc \in {"find", "insert"} /\ pay.rec.hash = h)

\* a filter that lets every record through
UnprocessedKeepsAll(batch, processed) == batch

\* the filter of the monitor callback
Unprocessed(batch, processed) ==
    SelectSeq(batch, LAMBDA tx : toLowerCase(tx.hash) \notin processed)

\* a callback that also registers the hashes of the records it takes
MonitorBlockRegisters(b, receipt) ==
    /\ b \in blockEvents
    /\ blockEvents' = blockEvents \ {b}
    /\ processedTransactionHashes' = processedTransactionHashes \cup
           {toLowerCase(tx.hash) : tx \in Range(ParseAll(blocks[b], receipt, b, now))}
    /\ LET newTransactions == ParseAll(blocks[b], receipt, b, now)
           unprocessedTransactions ==
               Unprocessed(newTransactions, processedTransactionHashes)
           hs == {tx.hash : tx \in Range(newTransactions)}
           late == {h \in hs : Returned(h)}
       IN  /\ newTransactions # <<>>
           /\ IF unprocessedTransactions # <<>>
              THEN /\ transactions' = unprocessedTransactions \o transactions
                   /\ mig' = Reassigned(mig)
              ELSE UNCHANGED <<transactions, mig>>
           /\ hist' = [hist EXCEPT
                 !.raced = @ \cup {h \in hs : Submitted(h) /\
                                     toLowerCase(h) \notin processedTransactionHashes},
                 !.lateDelivered = @ \cup late,
                 !.placed = PlacedDuring(@, HashesOf(unprocessedTransactions)),
                 !.batch = [block |-> b, receipt |-> receipt, on |-> monitorOn,
                            failed |-> hist.failedBlocks,
                            records |-> newTransactions],
                 !.needsStore = @ \cup (IF db THEN {}
                     ELSE {tx.hash : tx \in Range(unprocessedTransactions)})]
    /\ UNCHANGED <<walk, conn, calc, add, variant, walletKey, boot, db, uniqueIndex, store, service,
                   transactionModel, retry, chainPc, wallet, isRealBlockchainConnected,
                   monitorOn, blocks, mempool, extCount, pay, payCount, get, load>>

\* the 'block' listener finishes for block b and hands its batch to the callback
MonitorBlock(b, receipt) ==
    /\ b \in blockEvents
    /\ blockEvents' = blockEvents \ {b}
    /\ LET newTransactions == ParseAll(blocks[b], receipt, b, now)
           unprocessedTransactions ==
               Unprocessed(newTransactions, processedTransactionHashes)
           hs == {tx.hash : tx \in Range(newTransactions)}
           late == {h \in hs : Returned(h)}
       IN  /\ newTransactions # <<>>
           /\ IF unprocessedTransactions # <<>>
              THEN /\ transactions' = unprocessedTransactions \o transactions
                   /\ mig' = Reassigned(mig)
              ELSE UNCHANGED <<transactions, mig>>
           /\ hist' = [hist EXCEPT
                 !.raced = @ \cup {h \in hs : Submitted(h) /\
                                     toLowerCase(h) \notin processedTransactionHashes},
                 !.lateDelivered = @ \cup late,
                 !.placed = PlacedDuring(@, HashesOf(unprocessedTransactions)),
                 !.batch = [block |-> b, receipt |-> receipt, on |-> monitorOn,
                            failed |-> hist.failedBlocks,
                            records |-> newTransactions],
                 !.needsStore = @ \cup (IF db THEN {}
                     ELSE {tx.hash : tx \in Range(unprocessedTransactions)})]
    /\ UNCHANGED <<walk, conn, calc, add, variant, walletKey, boot, db, uniqueIndex, store, service,
                   transactionModel, retry, chainPc, wallet, isRealBlockchainConnected,
                   monitorOn, blocks, mempool, extCount, processedTransactionHashes,
                   pay, payCount, get, load>>

\* the listener ends without a batch: the block has no wallet transaction, or a
\* fetch threw and the error was logged
MonitorNoBatch(b) ==
    /\ b \in blockEvents
    /\ blockEvents' = blockEvents \ {b}
    /\ UNCHANGED <<walk, conn, calc, add, variant, walletKey, boot, db, uniqueIndex, store, service,
                   transactionModel, retry, chainPc, wallet, isRealBlockchainConnected,
                   monitorOn, blocks, mempool, extCount, transactions,
                   processedTransactionHashes, pay, payCount, get, mig, load, hist>>

\* a catch that removes the listener after logging the error
MonitorCatchUnsubscribes(b) ==
    /\ b \in blockEvents
    /\ blockEvents' = blockEvents \ {b}
    /\ monitorOn' = FALSE
    /\ hist' = [hist EXCEPT !.failedBlocks = @ \cup {b}]
    /\ UNCHANGED <<walk, conn, calc, add, variant, walletKey, boot, db, uniqueIndex, store, service,
                   transactionModel, retry, chainPc, wallet, isRealBlockchainConnected,
                   blocks, mempool, extCount, transactions,
                   processedTransactionHashes, pay, payCount, get, mig, load>>

\* the listener's catch: getBlock, getTransaction or getTransactionReceipt threw
\* for block b, the error is logged and the listener returns
MonitorCatch(b) ==
    /\ b \in blockEvents
    /\ blockEvents' = blockEvents \ {b}
    /\ hist' = [hist EXCEPT !.failedBlocks = @ \cup {b}]
    /\ UNCHANGED <<walk, conn, calc, add, variant, walletKey, boot, db, uniqueIndex, store, service,
                   transactionModel, retry, chainPc, wallet, isRealBlockchainConnected,
                   monitorOn, blocks, mempool, extCount, transactions,
                   processedTransactionHashes, pay, payCount, get, mig, load>>

(* ---------- loadRealTransactions ---------- *)
\* fetchTransactions reads the latest block number
LoadLatest(w) ==
    /\ load[w].pc = "count"
    /\ load' = [load EXCEPT ![w] = [pc |-> "walk", latest |-> Len(blocks)]]
    /\ UNCHANGED <<walk, conn, calc, add, variant, walletKey, boot, db, uniqueIndex, store, service,
                   transactionModel, retry, chainPc, wallet, isRealBlockchainConnected,
                   monitorOn, blockEvents, blocks, mempool, extCount, transactions,
                   processedTransactionHashes, pay, payCount, get, mig, hist>>

\* fetchTransactions resolves (with [] when it failed) and the cache is replaced
LoadFinish(w, outcome, receipt) ==
    /\ load[w].pc = "walk"
    /\ load' = [load EXCEPT ![w] = IdleLoad]
    /\ LET realTransactions ==
               IF outcome = "ok"
               THEN fetchTransactions(blocks, load[w].latest, PageLimit, receipt, now)
               ELSE <<>>
       IN  IF Len(realTransactions) > 0
           THEN /\ transactions' = realTransactions
                /\ mig' = Reassigned(mig)
           ELSE UNCHANGED <<transactions, mig>>
    /\ get' = IF w = "read" THEN [get EXCEPT !.pc = "balance"] ELSE get
    /\ hist' = [hist EXCEPT !.placed[w] = {}]
    /\ UNCHANGED <<walk, conn, calc, add, variant, walletKey, boot, db, uniqueIndex, store, service,
                   transactionModel, retry, chainPc, wallet, isRealBlockchainConnected,
                   monitorOn, blockEvents, blocks, mempool, extCount,
                   processedTransactionHashes, pay, payCount>>


(* ---------- what the try/catch blocks do with an error ---------- *)
\* a catch that passes the submission's error on to the caller
sendTransactionRethrows(error) == "rethrow"

\* UPIPaymentService.recordUPIPayment: catch around sendTransaction
sendTransactionCatch(error) == "fallbackHash"

\* a catch that passes the store's error on to the caller
recordUPIPaymentRethrows(error) == "rethrow"

\* BlockchainService.recordUPIPayment: catch around findByHash and insert
recordUPIPaymentCatch(error) == "logged"

\* BlockchainService.getTransactions: catch around the store read
getTransactionsCatch(error) == "fallback"

\* migrateTransactionsToMongoDB: the per-record catch and the outer catch
migrateCatch(error) == "logged"

(* ---------- recordUPIPayment ---------- *)
\* the record UPIPaymentService builds
UpiRecord(ref, amount, ts, h, status, nowMs) ==
    [id |-> UpiTxId(ref, nowMs), hash |-> h, amount |-> amountDisplay(amount),
     ts |-> ts, status |-> status]

PayReturned(h, rec, persisted, afterError) ==
    [h EXCEPT !.payOutcome = IF afterError THEN "returnedAfterStoreError" ELSE "returned",
              !.handedBack = @ \cup {rec.hash},
              !.unseen = IF persisted THEN @ ELSE @ \cup {rec},
              !.needsStore = IF persisted THEN @ ELSE @ \cup {rec.hash}]

PayThrew(h, ref) ==
    [h EXCEPT !.payOutcome = IF ref = NoRef THEN "threwMalformed" ELSE "threw"]

\* recordUPIPayment from the return of the recorder to the first store await:
\* register the hash, unshift the record, re-probe the store
RegisterAndCache(rec, real, blockNumber, h) ==
    /\ processedTransactionHashes' = processedTransactionHashes \cup {toLowerCase(rec.hash)}
    /\ transactions' = <<rec>> \o transactions
    /\ mig' = Unshifted(mig, rec)
    /\ transactionModel' = ensureMongoDBModel(transactionModel, db)
    /\ LET built == [h EXCEPT !.issued = Append(@,
                        [ref |-> pay.ref, amount |-> pay.amount, ts |-> pay.ts,
                         real |-> real, hash |-> rec.hash, status |-> rec.status,
                         blockNumber |-> blockNumber]),
                              !.placed = PlacedDuring(@, {rec.hash})]
       IN  IF transactionModel'
           THEN /\ pay' = [pay EXCEPT !.pc = "find", !.rec = rec]
                /\ hist' = built
           ELSE /\ pay' = IdlePay
                /\ hist' = PayReturned(built, rec, FALSE, FALSE)

\* the recorder could not build a record: substring of a missing reference throws
RecorderThrows(h) ==
    /\ pay' = IdlePay
    /\ hist' = PayThrew(h, pay.ref)
    /\ UNCHANGED <<processedTransactionHashes, transactions, mig, transactionModel>>

\* recordUPIPayment is entered; the model admits at most `limit` calls
PayStartWithin(limit, ref, amount) ==
    /\ service /\ pay.pc = "idle" /\ payCount < limit /\ CanStart
    /\ pay' = [IdlePay EXCEPT !.pc = "recorder", !.ref = ref, !.amount = amount, !.ts = now]
    /\ payCount' = payCount + 1
    /\ UNCHANGED <<walk, conn, calc, add, variant, walletKey, boot, db, uniqueIndex, store, service,
                   transactionModel, retry, chainPc, wallet, isRealBlockchainConnected,
                   monitorOn, blockEvents, blocks, mempool, extCount, transactions,
                   processedTransactionHashes, get, mig, load, hist>>

PayStart(ref, amount) == PayStartWithin(MaxPayments, ref, amount)

\* the recorder after getBlockNumber: with a wallet the transfer is submitted
PaySubmit ==
    /\ pay.pc = "recorder" /\ wallet
    /\ pay' = [pay EXCEPT !.pc = "sending", !.hash = ChainHash(payCount)]
    /\ mempool' = Append(mempool, ChainHash(payCount))
    /\ UNCHANGED <<walk, conn, calc, add, variant, walletKey, boot, db, uniqueIndex, store, service,
                   transactionModel, retry, chainPc, wallet, isRealBlockchainConnected,
                   monitorOn, blockEvents, blocks, extCount, transactions,
                   processedTransactionHashes, payCount, get, mig, load, hist>>

\* no wallet, or the submission throws: the hash is generated and the record is pending
PayFallback ==
    /\ pay.pc = "recorder"
    /\ IF pay.ref = NoRef \/ (wallet /\ sendTransactionCatch("rpc") # "fallbackHash")
       THEN RecorderThrows(hist)
       ELSE RegisterAndCache(
                UpiRecord(pay.ref, pay.amount, pay.ts,
                          generateTransactionHash(pay.ref, pay.amount, pay.ts),
                          "pending", now), FALSE, Len(blocks), hist)
    /\ UNCHANGED <<walk, conn, calc, add, variant, walletKey, boot, db, uniqueIndex, store, service, retry,
                   chainPc, wallet, isRealBlockchainConnected, monitorOn, blockEvents,
                   blocks, mempool, extCount, payCount, get, load>>

Mined(h) == \E b \in 1..Len(blocks) : h \in Range(blocks[b])

\* realTx.blockNumber: the block the transfer was mined in
BlockOf(h) == CHOOSE b \in 1..Len(blocks) : h \in Range(blocks[b])

\* sendTransaction resolves with the receipt of the mined transfer
PayConfirmed ==
    /\ pay.pc = "sending" /\ Mined(pay.hash)
    /\ IF pay.ref = NoRef
       THEN RecorderThrows(hist)
       ELSE RegisterAndCache(
                UpiRecord(pay.ref, pay.amount, pay.ts, pay.hash, "verified", now),
                TRUE, BlockOf(pay.hash), hist)
    /\ UNCHANGED <<walk, conn, calc, add, variant, walletKey, boot, db, uniqueIndex, store, service, retry,
                   chainPc, wallet, isRealBlockchainConnected, monitorOn, blockEvents,
                   blocks, mempool, extCount, payCount, get, load>>

\* findByHash resolves or throws
PayFind(outcome) ==
    /\ pay.pc = "find"
    /\ IF outcome = "throw"
       THEN IF recordUPIPaymentCatch("find") = "logged"
            THEN /\ pay' = IdlePay
                 /\ hist' = PayReturned(hist, pay.rec, FALSE, TRUE)
            ELSE /\ pay' = IdlePay
                 /\ hist' = PayThrew(hist, pay.ref)
       ELSE IF findByHash(store, pay.rec.hash)
            THEN /\ pay' = IdlePay
                 /\ hist' = PayReturned(hist, pay.rec, TRUE, FALSE)
            ELSE /\ pay' = [pay EXCEPT !.pc = "insert"]
                 /\ hist' = hist
    /\ UNCHANGED <<walk, conn, calc, add, variant, walletKey, boot, db, uniqueIndex, store, service,
                   transactionModel, retry, chainPc, wallet, isRealBlockchainConnected,
                   monitorOn, blockEvents, blocks, mempool, extCount, transactions,
                   processedTransactionHashes, payCount, get, mig, load>>

\* insert resolves or throws (a duplicate key under the unique index included)
PayInsert(outcome) ==
    /\ pay.pc = "insert"
    /\ pay' = IdlePay
    /\ IF outcome = "throw"
       THEN /\ store' = store
            /\ hist' = IF recordUPIPaymentCatch("insert") = "logged"
                       THEN PayReturned(hist, pay.rec, FALSE, TRUE)
                       ELSE PayThrew(hist, pay.ref)
       ELSE /\ store' = insert(store, uniqueIndex, Document(pay.rec, pay.amount))
            /\ hist' = IF InsertOutcome(store, uniqueIndex, pay.rec) = "E11000"
                          /\ recordUPIPaymentCatch("E11000") # "logged"
                       THEN PayThrew(hist, pay.ref)
                       ELSE PayReturned(hist, pay.rec, TRUE, FALSE)
    /\ UNCHANGED <<walk, conn, calc, add, variant, walletKey, boot, db, uniqueIndex, service,
                   transactionModel, retry, chainPc, wallet, isRealBlockchainConnected,
                   monitorOn, blockEvents, blocks, mempool, extCount, transactions,
                   processedTransactionHashes, payCount, get, mig, load>>


(* ---------- getTransactions ---------- *)
\* getTransactions has returned: the route handler holds the response (its
\* smartContracts and walletBalance, copied from the service's fields on either
\* path, are left out)
Responding(g, mode, why, list, totalTransactions, totalAid, h) ==
    [IdleGet EXCEPT !.pc = "respond", !.mode = mode, !.why = why, !.result = list,
                    !.totalTransactions = totalTransactions, !.totalAid = totalAid,
                    !.walletAddress = wallet,
                    !.isRealBlockchain = isRealBlockchainConnected,
                    !.n0 = g.n0,
                    !.mustShow = g.mustShow, !.due = g.due, !.late = h.lateDelivered]

\* TransactionResponse: the fields of a response the caller receives
Response(g) ==
    [transactions |-> g.result, totalTransactions |-> g.totalTransactions,
     totalAid |-> g.totalAid, avgProcessingTime |-> "2.3s",
     walletAddress |-> g.walletAddress, isRealBlockchain |-> g.isRealBlockchain]

\* the return of the fallback path: list and totals come from the cache
FallbackResponse(g, why, cache, h) ==
    Responding(g, "fallback", why, Take(cache, PageLimit), Len(cache),
               formatAidAmount(calculateTotalAid(cache)), h)

\* the fallback part of getTransactions up to its first await (or to its return)
EnterFallback(g, why, h) ==
    IF isRealBlockchainConnected
    THEN /\ get' = [g EXCEPT !.pc = "load", !.why = why]
         /\ load' = [load EXCEPT !["read"] = [pc |-> "count", latest |-> 0]]
    ELSE /\ get' = FallbackResponse(g, why, transactions, h)
         /\ load' = load

\* getTransactions up to its first await
BeginGetTransactions ==
    /\ service /\ get.pc = "idle" /\ CanStart
    /\ transactionModel' = ensureMongoDBModel(transactionModel, db)
    /\ hist' = [hist EXCEPT !.unseen = {}]
    /\ LET g == [IdleGet EXCEPT !.n0 = Len(store), !.mustShow = hist.unseen,
                                !.due = hist.needsStore] IN
           IF transactionModel'
           THEN /\ get' = [g EXCEPT !.pc = "findAll"]
                /\ load' = load
           ELSE EnterFallback(g, "noModel", hist)

\* a list request
GetStart ==
    /\ BeginGetTransactions
    /\ UNCHANGED <<walk, conn, calc, add, variant, walletKey, boot, db, uniqueIndex, store, service, retry,
                   chainPc, wallet, isRealBlockchainConnected, monitorOn, blockEvents,
                   blocks, mempool, extCount, transactions, processedTransactionHashes,
                   pay, payCount, mig>>

\* index.ts: one second after the service was built, the callback loads the ledger
BootInitialRead ==
    /\ variant = "index" /\ boot.pc = "settle"
    /\ BeginGetTransactions
    /\ boot' = IdleBoot
    /\ UNCHANGED <<walk, conn, calc, add, variant, walletKey, db, uniqueIndex, store, service, retry,
                   chainPc, wallet, isRealBlockchainConnected, monitorOn, blockEvents,
                   blocks, mempool, extCount, transactions, processedTransactionHashes,
                   pay, payCount, mig>>

\* a store read of getTransactions throws
GetReadError ==
    /\ get.pc \in {"findAll", "count", "sum"}
    /\ IF getTransactionsCatch("read") = "fallback"
       THEN /\ EnterFallback(get, "readError", hist)
            /\ hist' = hist
       ELSE /\ get' = IdleGet
            /\ load' = load
            /\ hist' = [hist EXCEPT !.getThrew = TRUE]
    /\ UNCHANGED <<walk, conn, calc, add, variant, walletKey, boot, db, uniqueIndex, store, service,
                   transactionModel, retry, chainPc, wallet, isRealBlockchainConnected,
                   monitorOn, blockEvents, blocks, mempool, extCount, transactions,
                   processedTransactionHashes, pay, payCount, mig>>

\* findAll(50) resolves
GetFindAll ==
    /\ get.pc = "findAll"
    /\ get' = [get EXCEPT !.pc = "count", !.dbTx = findAll(store, PageLimit)]
    /\ UNCHANGED <<walk, conn, calc, add, variant, walletKey, boot, db, uniqueIndex, store, service,
                   transactionModel, retry, chainPc, wallet, isRealBlockchainConnected,
                   monitorOn, blockEvents, blocks, mempool, extCount, transactions,
                   processedTransactionHashes, pay, payCount, mig, load, hist>>

\* getTotalCount resolves
GetCount ==
    /\ get.pc = "count"
    /\ get' = [get EXCEPT !.pc = "sum", !.count = Len(store)]
    /\ UNCHANGED <<walk, conn, calc, add, variant, walletKey, boot, db, uniqueIndex, store, service,
                   transactionModel, retry, chainPc, wallet, isRealBlockchainConnected,
                   monitorOn, blockEvents, blocks, mempool, extCount, transactions,
                   processedTransactionHashes, pay, payCount, mig, load, hist>>

\* a store path that reports the totals of the merged list
GetMergeCacheTotals ==
    /\ get.pc = "sum"
    /\ LET merged == MergeById(toBlockchainTransactions(get.dbTx), transactions) IN
          /\ transactions' = merged
          /\ get' = Responding(get, "store", "", merged, Len(merged),
                                formatAidAmount(calculateTotalAid(merged)), hist)
    /\ mig' = Reassigned(mig)
    /\ UNCHANGED <<walk, conn, calc, add, variant, walletKey, boot, db, uniqueIndex, store, service,
                   transactionModel, retry, chainPc, wallet, isRealBlockchainConnected,
                   monitorOn, blockEvents, blocks, mempool, extCount,
                   processedTransactionHashes, pay, payCount, load, hist>>

\* getTotalAid resolves: merge with the cache, replace the cache, return
GetMerge ==
    /\ get.pc = "sum"
    /\ LET merged == MergeById(toBlockchainTransactions(get.dbTx), transactions) IN
          /\ transactions' = merged
          /\ get' = Responding(get, "store", "", merged, get.count,
                                formatAidAmount(getTotalAid(store)), hist)
    /\ mig' = Reassigned(mig)
    /\ UNCHANGED <<walk, conn, calc, add, variant, walletKey, boot, db, uniqueIndex, store, service,
                   transactionModel, retry, chainPc, wallet, isRealBlockchainConnected,
                   monitorOn, blockEvents, blocks, mempool, extCount,
                   processedTransactionHashes, pay, payCount, load, hist>>

\* the fallback's getBalance resolves: the cache is returned
GetFallbackReturn ==
    /\ get.pc = "balance"
    /\ get' = FallbackResponse(get, get.why, transactions, hist)
    /\ UNCHANGED <<walk, conn, calc, add, variant, walletKey, boot, db, uniqueIndex, store, service,
                   transactionModel, retry, chainPc, wallet, isRealBlockchainConnected,
                   monitorOn, blockEvents, blocks, mempool, extCount, transactions,
                   processedTransactionHashes, pay, payCount, mig, load, hist>>

\* the route handler resumes after its await and sends the response
GetRespond ==
    /\ get.pc = "respond"
    /\ get' = IdleGet
    /\ UNCHANGED <<walk, conn, calc, add, variant, walletKey, boot, db, uniqueIndex, store, service,
                   transactionModel, retry, chainPc, wallet, isRealBlockchainConnected,
                   monitorOn, blockEvents, blocks, mempool, extCount, transactions,
                   processedTransactionHashes, pay, payCount, mig, load, hist>>

(* ---------- addTransaction and its verification timer ---------- *)
\* one of the amounts generateSimulatedTransaction draws from
SimAmount == <<"$", "5", "0", "0", "K">>

\* tx.status = 'verified' on the first record with that id
VerifyIn(list, id) ==
    LET at == {i \in 1..Len(list) : list[i].id = id} IN
        IF at = {} THEN list
        ELSE LET first == CHOOSE i \in at : \A j \in at : i <= j
             IN  [list EXCEPT ![first].status = "verified"]

\* updateOne({id}, {$set: {status}})
update(docs, id, status) ==
    LET at == {i \in 1..Len(docs) : docs[i].id = id} IN
        IF at = {} THEN docs
        ELSE LET first == CHOOSE i \in at : \A j \in at : i <= j
             IN  [docs EXCEPT ![first].status = status]

\* addTransaction after the store part: the timer of a pending record is set,
\* the record is unshifted
AddFinish(rec) ==
    /\ add' = [add EXCEPT !.pc = "idle", !.rec = <<>>,
                          !.timers = IF rec.status = "pending" THEN @ \cup {rec.id} ELSE @]
    /\ transactions' = <<rec>> \o transactions
    /\ mig' = Unshifted(mig, rec)

\* generateSimulatedTransaction calls addTransaction, up to its first await
AddStart(status) ==
    /\ service /\ add.pc = "idle" /\ add.count < MaxSimulated /\ CanStart
    /\ ~isRealBlockchainConnected
    /\ transactionModel' = ensureMongoDBModel(transactionModel, db)
    /\ LET rec == [id |-> SimTxId(add.count + 1), hash |-> SimHash(add.count + 1),
                   amount |-> SimAmount, ts |-> now, status |-> status]
           a == [add EXCEPT !.count = @ + 1]
       IN  IF transactionModel'
           THEN /\ add' = [a EXCEPT !.pc = "find", !.rec = rec]
                /\ UNCHANGED <<transactions, mig>>
           ELSE /\ add' = [a EXCEPT !.timers =
                               IF status = "pending" THEN @ \cup {rec.id} ELSE @]
                /\ transactions' = <<rec>> \o transactions
                /\ mig' = Unshifted(mig, rec)
    /\ UNCHANGED <<walk, conn, calc, variant, walletKey, boot, db, uniqueIndex, store, service, retry,
                   chainPc, wallet, isRealBlockchainConnected, monitorOn, blockEvents,
                   blocks, mempool, extCount, processedTransactionHashes, pay, payCount,
                   get, load, hist>>

\* findByHash resolves or throws; the catch logs and the call goes on
AddFind(outcome) ==
    /\ add.pc = "find"
    /\ IF outcome = "ok" /\ ~findByHash(store, add.rec.hash)
       THEN /\ add' = [add EXCEPT !.pc = "insert"]
            /\ UNCHANGED <<transactions, mig>>
       ELSE AddFinish(add.rec)
    /\ UNCHANGED <<walk, conn, calc, variant, walletKey, boot, db, uniqueIndex, store, service,
                   transactionModel, retry, chainPc, wallet, isRealBlockchainConnected,
                   monitorOn, blockEvents, blocks, mempool, extCount,
                   processedTransactionHashes, pay, payCount, get, load, hist>>

\* insert resolves or throws; the catch logs and the call goes on
AddInsert(outcome) ==
    /\ add.pc = "insert"
    /\ store' = IF outcome = "ok" THEN insert(store, uniqueIndex, Document(add.rec, 0))
                ELSE store
    /\ AddFinish(add.rec)
    /\ UNCHANGED <<walk, conn, calc, variant, walletKey, boot, db, uniqueIndex, service,
                   transactionModel, retry, chainPc, wallet, isRealBlockchainConnected,
                   monitorOn, blockEvents, blocks, mempool, extCount,
                   processedTransactionHashes, pay, payCount, get, load, hist>>

\* the verification timer fires: the cached record is looked up by id and marked,
\* the store is updated when a model is held (a failed update is only logged)
AddVerify(id, outcome) ==
    /\ id \in add.timers
    /\ add' = [add EXCEPT !.timers = @ \ {id}]
    /\ transactions' = VerifyIn(transactions, id)
    /\ mig' = [mig EXCEPT !.arr = VerifyIn(@, id)]
    /\ store' = IF (\E i \in 1..Len(transactions) : transactions[i].id = id)
                   /\ transactionModel /\ outcome = "ok"
                THEN update(store, id, "verified")
                ELSE store
    /\ UNCHANGED <<walk, conn, calc, variant, walletKey, boot, db, uniqueIndex, service,
                   transactionModel, retry, chainPc, wallet, isRealBlockchainConnected,
                   monitorOn, blockEvents, blocks, mempool, extCount,
                   processedTransactionHashes, pay, payCount, get, load, hist>>

(* ---------- migrateTransactionsToMongoDB ---------- *)
\* the for..of loop moves on; after the last element the reload is awaited
NextIteration(m) ==
    IF m.idx + 1 > Len(m.arr)
    THEN [m EXCEPT !.pc = "reload", !.alias = FALSE]
    ELSE [m EXCEPT !.pc = "find", !.idx = m.idx + 1]

\* findByHash of the current record resolves or throws
MigFind(outcome) ==
    /\ mig.pc = "find"
    /\ mig' = IF outcome = "throw"
              THEN (IF migrateCatch("find") = "logged" THEN NextIteration(mig) ELSE IdleMig)
              ELSE IF findByHash(store, mig.arr[mig.idx].hash)
                   THEN NextIteration(mig)
                   ELSE [mig EXCEPT !.pc = "insert"]
    /\ UNCHANGED <<walk, conn, calc, add, variant, walletKey, boot, db, uniqueIndex, store, service,
                   transactionModel, retry, chainPc, wallet, isRealBlockchainConnected,
                   monitorOn, blockEvents, blocks, mempool, extCount, transactions,
                   processedTransactionHashes, pay, payCount, get, load, hist>>

\* insert of the current record resolves or throws
MigInsert(outcome) ==
    /\ mig.pc = "insert"
    /\ store' = IF outcome = "throw" THEN store
                ELSE insert(store, uniqueIndex, Document(mig.arr[mig.idx], 0))
    /\ mig' = IF migrateCatch("insert") = "logged" THEN NextIteration(mig) ELSE IdleMig
    /\ UNCHANGED <<walk, conn, calc, add, variant, walletKey, boot, db, uniqueIndex, service,
                   transactionModel, retry, chainPc, wallet, isRealBlockchainConnected,
                   monitorOn, blockEvents, blocks, mempool, extCount, transactions,
                   processedTransactionHashes, pay, payCount, get, load, hist>>

\* findAll(100) resolves and replaces the cache, or throws and is logged
MigReload(outcome) ==
    /\ mig.pc = "reload"
    /\ mig' = IdleMig
    /\ transactions' = IF outcome = "throw" THEN transactions
                       ELSE toBlockchainTransactions(findAll(store, ReloadLimit))
    /\ UNCHANGED <<walk, conn, calc, add, variant, walletKey, boot, db, uniqueIndex, store, service,
                   transactionModel, retry, chainPc, wallet, isRealBlockchainConnected,
                   monitorOn, blockEvents, blocks, mempool, extCount,
                   processedTransactionHashes, pay, payCount, get, load, hist>>

(* ---------- the system ---------- *)
Next ==
    \/ BootAttemptOk
    \/ BootAttemptFail
    \/ BootWaitDone
    \/ BootInitialRead
    \/ RequestBeforeService
    \/ LegacyAttemptOk
    \/ \E outcome \in Outcomes : LegacyIndexes(outcome)
    \/ LegacyAttemptFail
    \/ reinitializeMongoDB
    \/ LegacyMigrate
    \/ RetryTick
    \/ RetryTickEarlier
    \/ MineBlock
    \/ ConnectWallet
    \/ StartMonitoring
    \/ \E b \in 1..MaxBlocks, receipt \in ReceiptKinds : MonitorBlock(b, receipt)
    \/ \E b \in 1..MaxBlocks : MonitorNoBatch(b)
    \/ \E w \in {"startup", "read"} : LoadLatest(w)
    \/ \E w \in {"startup", "read"}, outcome \in Outcomes, receipt \in ReceiptKinds :
          LoadFinish(w, outcome, receipt)
    \/ \E ref \in Refs \cup {NoRef}, amount \in Amounts : PayStart(ref, amount)
    \/ PaySubmit
    \/ PayFallback
    \/ PayConfirmed
    \/ \E outcome \in Outcomes : PayFind(outcome)
    \/ \E outcome \in Outcomes : PayInsert(outcome)
    \/ GetStart
    \/ GetReadError
    \/ GetFindAll
    \/ GetCount
    \/ GetMerge
    \/ GetFallbackReturn
    \/ GetRespond
    \/ \E outcome \in Outcomes : MigFind(outcome)
    \/ \E outcome \in Outcomes : MigInsert(outcome)
    \/ \E outcome \in Outcomes : MigReload(outcome)
    \/ closeDatabase
    \/ stopMonitoring
    \/ \E status \in {"pending", "verified"} : AddStart(status)
    \/ \E outcome \in Outcomes : AddFind(outcome)
    \/ \E outcome \in Outcomes : AddInsert(outcome)
    \/ \E id \in add.timers, outcome \in Outcomes : AddVerify(id, outcome)

Spec == Init /\ [][Next]_vars

(* ---------- index.ts alone: the retry loop, then the service ---------- *)
InitIndex == Init /\ variant = "index"

NextIndex ==
    \/ BootAttemptOk
    \/ BootAttemptFail
    \/ BootWaitDone
    \/ BootInitialRead
    \/ RequestBeforeService
    \/ RetryTick
    \/ MineBlock
    \/ ConnectWallet
    \/ StartMonitoring
    \/ \E b \in 1..MaxBlocks, receipt \in ReceiptKinds : MonitorBlock(b, receipt)
    \/ \E b \in 1..MaxBlocks : MonitorNoBatch(b)
    \/ \E w \in {"startup", "read"} : LoadLatest(w)
    \/ \E w \in {"startup", "read"}, outcome \in Outcomes, receipt \in ReceiptKinds :
          LoadFinish(w, outcome, receipt)
    \/ \E ref \in Refs \cup {NoRef}, amount \in Amounts : PayStart(ref, amount)
    \/ PaySubmit
    \/ PayFallback
    \/ PayConfirmed
    \/ \E outcome \in Outcomes : PayFind(outcome)
    \/ \E outcome \in Outcomes : PayInsert(outcome)
    \/ GetStart
    \/ GetReadError
    \/ GetFindAll
    \/ GetCount
    \/ GetMerge
    \/ GetFallbackReturn
    \/ GetRespond

SpecIndex == InitIndex /\ [][NextIndex]_vars

(* ---------- the retry loop of index.ts up to the service's first read ---------- *)
NextBoot ==
    \/ BootAttemptOk
    \/ BootAttemptFail
    \/ BootWaitDone
    \/ BootInitialRead
    \/ RequestBeforeService
    \/ RetryTick
    \/ MineBlock
    \/ ConnectWallet

SpecBoot == InitIndex /\ [][NextBoot]_vars

\* every connection attempt resolves or times out, every timer fires
FairSpecBoot ==
    /\ SpecBoot
    /\ WF_vars(BootAttemptOk \/ BootAttemptFail)
    /\ WF_vars(BootWaitDone)
    /\ WF_vars(BootInitialRead)

(* ---------- the earlier bootstrap, deployed without a wallet key ---------- *)
InitLegacy == Init /\ variant = "legacy" /\ ~walletKey

NextLegacy ==
    \/ LegacyAttemptOk
    \/ \E outcome \in Outcomes : LegacyIndexes(outcome)
    \/ LegacyAttemptFail
    \/ reinitializeMongoDB
    \/ LegacyMigrate
    \/ RetryTick
    \/ MineBlock
    \/ ConnectWallet
    \/ \E ref \in Refs \cup {NoRef}, amount \in Amounts : PayStart(ref, amount)
    \/ PayFallback
    \/ \E outcome \in Outcomes : PayFind(outcome)
    \/ \E outcome \in Outcomes : PayInsert(outcome)
    \/ GetStart
    \/ GetReadError
    \/ GetFindAll
    \/ GetCount
    \/ GetMerge
    \/ GetRespond
    \/ \E outcome \in Outcomes : MigFind(outcome)
    \/ \E outcome \in Outcomes : MigInsert(outcome)
    \/ \E outcome \in Outcomes : MigReload(outcome)

SpecLegacy == InitLegacy /\ [][NextLegacy]_vars

(* ---------- a later run without a wallet key: the collection is stocked ---------- *)
\* the documents earlier runs left in the collection, oldest first
Stock(n) ==
    [i \in 1..n |->
        Document(UpiRecord("UPI-000", 500, i - n - 1,
                           generateTransactionHash("UPI-000", 500, i - n - 1),
                           "pending", i - n - 1), 500)]

InitStocked ==
    /\ \E n \in {0, MaxStock} : InitProgramOver(Stock(n))
    /\ variant = "index" /\ ~walletKey
    /\ calc = IdleCalc

NextStocked ==
    \/ BootAttemptOk
    \/ BootAttemptFail
    \/ BootWaitDone
    \/ BootInitialRead
    \/ \E ref \in Refs, amount \in Amounts : PayStart(ref, amount)
    \/ PayFallback
    \/ \E outcome \in Outcomes : PayFind(outcome)
    \/ \E outcome \in Outcomes : PayInsert(outcome)
    \/ GetStart
    \/ GetReadError
    \/ GetFindAll
    \/ GetCount
    \/ GetMerge
    \/ GetRespond

SpecStocked == InitStocked /\ [][NextStocked]_vars

(* ---------- the earlier bootstrap with a store that comes late and goes away ---------- *)
NextReprobe ==
    \/ LegacyAttemptOk
    \/ \E outcome \in Outcomes : LegacyIndexes(outcome)
    \/ LegacyAttemptFail
    \/ reinitializeMongoDB
    \/ LegacyMigrate
    \/ RetryTickWhen(Unconnected)
    \/ RetryTickEarlier
    \/ closeDatabase
    \/ ConnectWallet
    \/ \E ref \in Refs, amount \in Amounts : PayStart(ref, amount)
    \/ PayFallback
    \/ \E outcome \in Outcomes : PayFind(outcome)
    \/ \E outcome \in Outcomes : PayInsert(outcome)
    \/ GetStart
    \/ GetReadError
    \/ GetFindAll
    \/ GetCount
    \/ GetMerge
    \/ GetRespond
    \/ \E outcome \in Outcomes : MigFind(outcome)
    \/ \E outcome \in Outcomes : MigInsert(outcome)
    \/ \E outcome \in Outcomes : MigReload(outcome)

SpecReprobe == InitLegacy /\ [][NextReprobe]_vars

(* ---------- repeated payments of a deployment without a wallet key ---------- *)
InitUpi == InitIndex /\ ~walletKey

NextUpi ==
    \/ BootAttemptOk
    \/ BootAttemptFail
    \/ BootWaitDone
    \/ BootInitialRead
    \/ RetryTick
    \/ MineBlock
    \/ ConnectWallet
    \/ \E ref \in Refs, amount \in Amounts : PayStartWithin(MaxRepeats, ref, amount)
    \/ PayFallback
    \/ \E outcome \in Outcomes : PayFind(outcome)
    \/ \E outcome \in Outcomes : PayInsert(outcome)
    \/ GetReadError
    \/ GetFindAll
    \/ GetCount
    \/ GetMerge
    \/ GetRespond

SpecUpi == InitUpi /\ [][NextUpi]_vars

(* ---------- two payments under one reference, for different amounts ---------- *)
NextIds ==
    \/ NextUpi
    \/ \E ref \in Refs : PayStartWithin(MaxRepeats, ref, 700)

SpecIds == InitUpi /\ [][NextIds]_vars

(* ---------- database.ts: connectToDatabase step by step ---------- *)
\* what MONGODB_URI starts with
Schemes == {"mongodb+srv://", "mongodb://", "other"}

\* new MongoClient(mongoUri, clientOptions) under a configuration; connect() awaited
Attempt(config) == [config |-> config, result |-> "pending"]

Settle(tried, result) == [tried EXCEPT ![Len(tried)].result = result]

\* connectToDatabase up to its first await (or to its return)
connectToDatabase(scheme) ==
    /\ conn.pc = "idle" /\ conn.calls < MaxConnects
    /\ conn.calls = 0 \/ scheme = conn.scheme
    /\ LET c == [conn EXCEPT !.scheme = scheme, !.tried = <<>>, !.outcome = "none",
                             !.calls = @ + 1] IN
          IF db THEN conn' = [c EXCEPT !.outcome = "resolved"]
          ELSE IF scheme = "mongodb+srv://"
          THEN conn' = [c EXCEPT !.pc = "strict", !.client = TRUE,
                                 !.tried = <<Attempt("strict")>>]
          ELSE IF scheme = "mongodb://"
          THEN conn' = [c EXCEPT !.pc = "plain", !.client = TRUE,
                                 !.tried = <<Attempt("none")>>]
          ELSE IF conn.client THEN conn' = [c EXCEPT !.pc = "indexes"]
          ELSE conn' = [c EXCEPT !.outcome = "threw"]
    /\ db' = (db \/ (scheme \notin {"mongodb+srv://", "mongodb://"} /\ conn.client))
    /\ UNCHANGED <<walk, calc, add, variant, walletKey, boot, uniqueIndex, store, service,
                   transactionModel, retry, chainPc, wallet, isRealBlockchainConnected,
                   monitorOn, blockEvents, blocks, mempool, extCount, transactions,
                   processedTransactionHashes, pay, payCount, get, mig, load, hist>>

\* the first connect() resolves or rejects: tls, no invalid certificates or hostnames
ConnectStrict(outcome) ==
    /\ conn.pc = "strict"
    /\ conn' = [conn EXCEPT !.pc = IF outcome = "ok" THEN "indexes" ELSE "closing",
                            !.tried = Settle(@, IF outcome = "ok" THEN "ok" ELSE "failed")]
    /\ db' = (outcome = "ok")
    /\ UNCHANGED <<walk, calc, add, variant, walletKey, boot, uniqueIndex, store, service,
                   transactionModel, retry, chainPc, wallet, isRealBlockchainConnected,
                   monitorOn, blockEvents, blocks, mempool, extCount, transactions,
                   processedTransactionHashes, pay, payCount, get, mig, load, hist>>

\* the failed client is closed (an error of close is ignored), a client that
\* allows invalid certificates and hostnames is built and connect() awaited
ConnectRetryRelaxed(outcome) ==
    /\ conn.pc = "closing"
    /\ conn' = [conn EXCEPT !.pc = "relaxed", !.client = TRUE,
                            !.tried = Append(@, Attempt("relaxed"))]
    /\ UNCHANGED <<walk, calc, add, variant, walletKey, boot, db, uniqueIndex, store, service,
                   transactionModel, retry, chainPc, wallet, isRealBlockchainConnected,
                   monitorOn, blockEvents, blocks, mempool, extCount, transactions,
                   processedTransactionHashes, pay, payCount, get, mig, load, hist>>

\* a catch of the second connect() that only logs: the call goes on to client.db
ConnectRelaxedSwallows(outcome) ==
    /\ conn.pc = "relaxed"
    /\ conn' = [conn EXCEPT !.pc = "indexes",
                            !.tried = Settle(@, IF outcome = "ok" THEN "ok" ELSE "failed")]
    /\ db' = TRUE
    /\ UNCHANGED <<walk, calc, add, variant, walletKey, boot, uniqueIndex, store, service,
                   transactionModel, retry, chainPc, wallet, isRealBlockchainConnected,
                   monitorOn, blockEvents, blocks, mempool, extCount, transactions,
                   processedTransactionHashes, pay, payCount, get, mig, load, hist>>

\* the second connect() resolves, or rejects and the error is rethrown
ConnectRelaxed(outcome) ==
    /\ conn.pc = "relaxed"
    /\ conn' = IF outcome = "ok"
               THEN [conn EXCEPT !.pc = "indexes", !.tried = Settle(@, "ok")]
               ELSE [conn EXCEPT !.pc = "idle", !.tried = Settle(@, "failed"),
                                 !.outcome = "threw"]
    /\ db' = (outcome = "ok")
    /\ UNCHANGED <<walk, calc, add, variant, walletKey, boot, uniqueIndex, store, service,
                   transactionModel, retry, chainPc, wallet, isRealBlockchainConnected,
                   monitorOn, blockEvents, blocks, mempool, extCount, transactions,
                   processedTransactionHashes, pay, payCount, get, mig, load, hist>>

\* a mongodb:// URI: one connect() with the driver's defaults and family 4
ConnectPlain(outcome) ==
    /\ conn.pc = "plain"
    /\ conn' = IF outcome = "ok"
               THEN [conn EXCEPT !.pc = "indexes", !.tried = Settle(@, "ok")]
               ELSE [conn EXCEPT !.pc = "idle", !.tried = Settle(@, "failed"),
                                 !.outcome = "threw"]
    /\ db' = (outcome = "ok")
    /\ UNCHANGED <<walk, calc, add, variant, walletKey, boot, uniqueIndex, store, service,
                   transactionModel, retry, chainPc, wallet, isRealBlockchainConnected,
                   monitorOn, blockEvents, blocks, mempool, extCount, transactions,
                   processedTransactionHashes, pay, payCount, get, mig, load, hist>>

\* createIndexes ends and connectToDatabase returns the handle
ConnectIndexes(outcome) ==
    /\ conn.pc = "indexes"
    /\ uniqueIndex' = createIndexes(store, outcome)
    /\ conn' = [conn EXCEPT !.pc = "idle", !.outcome = "resolved"]
    /\ UNCHANGED <<walk, calc, add, variant, walletKey, boot, db, store, service,
                   transactionModel, retry, chainPc, wallet, isRealBlockchainConnected,
                   monitorOn, blockEvents, blocks, mempool, extCount, transactions,
                   processedTransactionHashes, pay, payCount, get, mig, load, hist>>

NextTls ==
    \/ \E scheme \in Schemes : connectToDatabase(scheme)
    \/ \E outcome \in Outcomes : ConnectStrict(outcome)
    \/ \E outcome \in Outcomes : ConnectRetryRelaxed(outcome)
    \/ \E outcome \in Outcomes : ConnectRelaxed(outcome)
    \/ \E outcome \in Outcomes : ConnectPlain(outcome)
    \/ \E outcome \in Outcomes : ConnectIndexes(outcome)

SpecTls == Init /\ [][NextTls]_vars

(* ---------- pending records of a deployment without a wallet key ---------- *)
\* the one read is the bootstrap's
NextSim ==
    \/ BootAttemptOk
    \/ BootAttemptFail
    \/ BootWaitDone
    \/ BootInitialRead
    \/ RetryTick
    \/ MineBlock
    \/ ConnectWallet
    \/ \E ref \in Refs, amount \in Amounts : PayStart(ref, amount)
    \/ PayFallback
    \/ \E outcome \in Outcomes : PayFind(outcome)
    \/ \E outcome \in Outcomes : PayInsert(outcome)
    \/ \E status \in {"pending", "verified"} : AddStart(status)
    \/ \E outcome \in Outcomes : AddFind(outcome)
    \/ \E outcome \in Outcomes : AddInsert(outcome)
    \/ \E id \in add.timers, outcome \in Outcomes : AddVerify(id, outcome)
    \/ GetReadError
    \/ GetFindAll
    \/ GetCount
    \/ GetMerge
    \/ GetRespond

SpecSim == InitUpi /\ [][NextSim]_vars

(* ---------- a deployment with a wallet key whose monitor is stopped ---------- *)
InitStop == InitIndex /\ walletKey

NextStop ==
    \/ BootAttemptOk
    \/ BootAttemptFail
    \/ BootWaitDone
    \/ BootInitialRead
    \/ RetryTick
    \/ MineBlock
    \/ ConnectWallet
    \/ StartMonitoring
    \/ \E b \in 1..MaxBlocks, receipt \in ReceiptKinds : MonitorBlock(b, receipt)
    \/ \E b \in 1..MaxBlocks : MonitorNoBatch(b)
    \/ \E w \in {"startup", "read"} : LoadLatest(w)
    \/ \E w \in {"startup", "read"}, outcome \in Outcomes, receipt \in ReceiptKinds :
          LoadFinish(w, outcome, receipt)
    \/ PaySubmit
    \/ PayFallback
    \/ PayConfirmed
    \/ \E outcome \in Outcomes : PayFind(outcome)
    \/ \E outcome \in Outcomes : PayInsert(outcome)
    \/ GetReadError
    \/ GetFindAll
    \/ GetCount
    \/ GetMerge
    \/ GetFallbackReturn
    \/ GetRespond
    \/ stopMonitoring
    \/ \E ref \in Refs, amount \in Amounts : PayStart(ref, amount)

SpecStop == InitStop /\ [][NextStop]_vars

\* the awaits of an outstanding recordUPIPayment resolve: the confirmation of a
\* mined transfer arrives, the store answers or fails
FairSpecStop ==
    /\ SpecStop
    /\ WF_vars(PayConfirmed)
    /\ WF_vars(\E outcome \in Outcomes : PayFind(outcome))
    /\ WF_vars(\E outcome \in Outcomes : PayInsert(outcome))

(* ---------- the aggregators and formatters on their own ---------- *)
\* "Rs" stands for the rupee sign, one character
AmountStrings ==
    {<<"$", "1", ".", "2", "M">>, <<"$", "5", "0", "0", "K">>, <<"Rs", "3", "0", "0">>,
     <<"0", ".", "0", "0", "0", "1", " ", "M", "A", "T", "I", "C">>}

AmountLists == UNION {[1..n -> AmountStrings] : n \in 0..MaxList}

\* whole thousands below a million, whole tenths of a million from a million up
AbbreviatedAmounts ==
    {k * 1000 : k \in 1..999} \cup {t * 100000 : t \in 10..MaxTenths}

InitAid ==
    /\ InitProgram /\ variant = "index" /\ ~walletKey
    /\ calc \in {[IdleCalc EXCEPT !.pc = "amounts", !.amounts = a] : a \in AmountLists}
          \cup {[IdleCalc EXCEPT !.pc = "value", !.value = x] : x \in AbbreviatedAmounts}

\* documents written without amountInINR (by the migration), and the same records cached
AsDocuments(amounts) ==
    [i \in 1..Len(amounts) |-> [amount |-> amounts[i], amountInINR |-> 0]]

AsRecords(amounts) == [i \in 1..Len(amounts) |-> [amount |-> amounts[i]]]

\* both aggregators run over the same amounts
Aggregate ==
    /\ calc.pc = "amounts"
    /\ calc' = [calc EXCEPT !.pc = "summed",
                            !.store = getTotalAid(AsDocuments(calc.amounts)),
                            !.cache = calculateTotalAid(AsRecords(calc.amounts))]
    /\ UNCHANGED <<sysVars, hist>>

\* a total is formatted for the response, a payment for its record
FormatValue(formatter) ==
    /\ calc.pc = "value"
    /\ calc' = [calc EXCEPT !.pc = "shown",
                   !.shown = IF formatter = "formatAidAmount"
                             THEN formatAidAmount([Zero EXCEPT !.v = 100 * calc.value])
                             ELSE amountDisplay(calc.value)]
    /\ UNCHANGED <<sysVars, hist>>

\* the formatted amount is aggregated again
ParseShown ==
    /\ calc.pc = "shown"
    /\ calc' = [calc EXCEPT !.pc = "parsed",
                            !.store = getTotalAid(AsDocuments(<<calc.shown>>)),
                            !.cache = calculateTotalAid(AsRecords(<<calc.shown>>))]
    /\ UNCHANGED <<sysVars, hist>>

NextAid ==
    \/ Aggregate
    \/ \E formatter \in {"formatAidAmount", "amountDisplay"} : FormatValue(formatter)
    \/ ParseShown

SpecAid == InitAid /\ [][NextAid]_vars

(* ---------- properties ---------- *)
\* C1: once the monitor has delivered a batch holding the hash of a payment that
\* recordUPIPayment had already returned, every list result returned afterwards
\* holds exactly one record with that hash.
C1_NoDoubleCounting ==
    get.pc = "respond" => \A h \in get.late : HashCount(get.result, h) = 1

\* C2: the monitor callback never filters a batch that holds the hash of a
\* submitted, mined transfer before recordUPIPayment has registered that hash.
C2_RegisteredBeforeFiltered == hist.raced = {}

\* C3: no list result holds two records with the same hash.
C3_HashUnique ==
    get.pc = "respond" =>
        \A i, j \in 1..Len(get.result) :
            get.result[i].hash = get.result[j].hash => i = j

\* C4: the store holds at most one document per hash, and a duplicate insert is
\* never passed on to the caller as an error.
C4_IdempotentPersistence ==
    /\ \A i, j \in 1..Len(store) : store[i].hash = store[j].hash => i = j
    /\ hist.payOutcome # "threw"

\* C5: every record recordUPIPayment returned without having stored it is in the
\* result of the next list request (fewer than 50 records exist here).
C5_DegradedAvailability ==
    get.pc = "respond" =>
        \A rec \in get.mustShow :
            \E i \in 1..Len(get.result) : get.result[i].hash = rec.hash

\* C6: no list request fails inside the service, and a record request fails
\* there only for malformed input, whatever the store and the ledger throw.
C6_FailureAbsorption ==
    /\ ~hist.getThrew
    /\ hist.payOutcome # "threw"

\* C6 witness: a record request was answered although the store threw, and a
\* list request whose store read threw is answered from the cache.
C6_Witness ==
    /\ hist.payOutcome = "returnedAfterStoreError"
    /\ get.pc = "respond" /\ get.mode = "fallback" /\ get.why = "readError"

\* nothing that could still write to the store is pending
Settled ==
    /\ boot.pc = "done" /\ ~retry.active
    /\ pay.pc = "idle" /\ mig.pc = "idle"

\* C7: once a store-backed read that began after a record was accepted without
\* the store has returned and no write is pending, the record is in the store,
\* once.
C7_AcceptedReachStore ==
    (get.pc = "respond" /\ get.mode = "store" /\ Settled) =>
        \A h \in get.due : HashCount(store, h) = 1

\* C8: no request made after the server listens fails for want of the service.
C8_ServedDuringStartup == ~hist.rejected

\* C9: at most 5 connection attempts; the wait after the n-th failure, n = 1..4,
\* is n x 2000 ms and longer than the one before; no wait follows the fifth.
C9_RetrySchedule ==
    /\ boot.pc \in {"attempt", "wait"} => boot.retryCount \in 0..4
    /\ boot.pc = "wait" =>
          /\ boot.retryCount \in 1..4
          /\ boot.wait = boot.retryCount * 2000
          /\ boot.wait > boot.prevWait

\* C9 witness: the wait after the fourth failed attempt.
C9_Witness == boot.pc = "wait" /\ boot.retryCount = 4 /\ boot.wait = 8000

\* the retry loop is over
LoopEnded == boot.pc \in {"settle", "done"}

\* C10: the connection loop ends, and from then on the service exists, with a
\* store model exactly if the database was reached.
C10_LoopTerminates ==
    /\ <>LoopEnded
    /\ [](LoopEnded => service /\ transactionModel = db)

\* C10 witness: all attempts failed and the service runs on memory alone.
C10_Witness ==
    boot.pc = "done" /\ service /\ ~db /\ ~transactionModel /\ retry.active

\* C11: the records of every list result are in descending order of timestamp,
\* in the store-backed mode and in the fallback mode alike.
C11_SortedDescending ==
    get.pc = "respond" =>
        \A i, j \in 1..Len(get.result) :
            i < j => get.result[i].ts >= get.result[j].ts

\* the sum of the amounts by the stated rule: magnitude x 10^6 for a suffix M,
\* x 10^3 for a suffix K, x 1 without suffix (in hundredths)
RECURSIVE RuleSum(_)
RuleSum(amounts) ==
    IF amounts = <<>> THEN 0
    ELSE LET str == Head(amounts)
             m == parseFloat(replaceNonNumeric(str))
             k == IF str[Len(str)] = "M" THEN 6 ELSE IF str[Len(str)] = "K" THEN 3 ELSE 0
         IN  Hundredths(m.n, m.d, k) + RuleSum(Tail(amounts))

\* C13: both aggregators follow the rule, so they agree on every list of
\* suffixed and unsuffixed amounts; "$1.2M", "$500K", "Rs300" sum to 1,700,300
\* and are shown as "$1.7M".
C13_AggregationRule ==
    (calc.pc = "summed" /\ \A i \in 1..Len(calc.amounts) : ~includes(calc.amounts[i], " ")) =>
        /\ calc.store.v = RuleSum(calc.amounts)
        /\ calc.cache.v = RuleSum(calc.amounts)
        /\ calc.amounts = <<<<"$", "1", ".", "2", "M">>, <<"$", "5", "0", "0", "K">>,
                             <<"Rs", "3", "0", "0">>>> =>
              /\ calc.store.v = 170030000 /\ calc.cache.v = 170030000
              /\ formatAidAmount(calc.store) = <<"$", "1", ".", "7", "M">>
              /\ formatAidAmount(calc.cache) = <<"$", "1", ".", "7", "M">>

\* C20: an amount expressible in abbreviated form, formatted and aggregated
\* again, gives exactly that amount.
C20_RoundTrip ==
    calc.pc = "parsed" =>
        /\ calc.cache = [nan |-> FALSE, v |-> 100 * calc.value, inexact |-> FALSE]
        /\ calc.store = [nan |-> FALSE, v |-> 100 * calc.value, inexact |-> FALSE]

\* C12: a store-backed result reports the document count and the formatted sum
\* the store had while the call ran (documents are only ever appended),
\* whatever the cache holds; a result reports the cache's totals only when the
\* store was unreachable or its read failed.
C12_TotalsFromStore ==
    get.pc = "respond" =>
        IF get.mode = "store"
        THEN /\ get.totalTransactions \in get.n0..Len(store)
             /\ \E k \in get.n0..Len(store) :
                   get.totalAid = formatAidAmount(getTotalAid(SubSeq(store, 1, k)))
        ELSE /\ get.why \in {"noModel", "readError"}
             /\ get.totalTransactions = Len(get.result)
             /\ get.totalAid = formatAidAmount(calculateTotalAid(get.result))

\* C12 witness: a store-backed result whose list is longer than the store and
\* would sum to another total.
C12_Witness ==
    /\ get.pc = "respond" /\ get.mode = "store"
    /\ get.totalTransactions = 1 /\ Len(get.result) = 2
    /\ get.totalAid # formatAidAmount(calculateTotalAid(get.result))

\* what the store path returns to the same caller over an empty collection
EmptyStoreResponse(g) ==
    [transactions |-> MergeById(toBlockchainTransactions(findAll(<<>>, PageLimit)), <<>>),
     totalTransactions |-> Len(<<>>),
     totalAid |-> formatAidAmount(getTotalAid(<<>>)),
     avgProcessingTime |-> "2.3s",
     walletAddress |-> g.walletAddress, isRealBlockchain |-> g.isRealBlockchain]

\* C14: a response served from the cache because the store was unreachable
\* differs, in some field, from the store-backed responses; here from the one
\* the store path gives the same caller when the collection is empty.
C14_DegradedObservable ==
    (get.pc = "respond" /\ get.mode = "fallback" /\ get.why = "noModel") =>
        Response(get) # EmptyStoreResponse(get)

C16_UniqueHashPerPayment ==
    \A i, j \in 1..Len(hist.issued) :
        hist.issued[i].hash = hist.issued[j].hash => i = j


\* C17: whenever a read or a write starts, ensureMongoDBModel has just run, and the
\* store model is set exactly when the database handle exists: a read started with
\* a handle goes to the store (also after the service's interval gave up), a read
\* or write started without one finds the model reset.
StartsRead == get.pc = "idle" /\ get'.pc # "idle"

StartsWrite == pay.pc = "recorder" /\ Len(hist'.issued) > Len(hist.issued)

C17_Reprobe ==
    [][/\ (StartsRead \/ StartsWrite) => (transactionModel' <=> db)
       /\ StartsRead => (get'.pc = "findAll" <=> db)
       /\ StartsWrite => (pay'.pc = "find" <=> db)]_vars

\* the interval ran out before the connection came up, and a read is at the store
C17_Witness ==
    /\ ~retry.active /\ retry.retryCount = serviceMaxRetries
    /\ db /\ transactionModel /\ boot.pc = "settle" /\ get.pc = "findAll"


\* C18: a record created pending becomes verified: once every call has returned
\* and no verification timer is left to fire, no record is pending any more,
\* neither in the cache nor in the store.
NothingOutstanding ==
    /\ boot.pc = "done" /\ chainPc = "done"
    /\ pay.pc = "idle" /\ get.pc = "idle" /\ mig.pc = "idle"
    /\ add.pc = "idle" /\ add.timers = {}

C18_PendingVerified ==
    NothingOutstanding =>
        /\ \A i \in 1..Len(transactions) : transactions[i].status # "pending"
        /\ \A i \in 1..Len(store) : store[i].status # "pending"

\* C19: a payment that was waiting for its confirmation when stopMonitoring was
\* called completes once its transfer is mined: the call returns the record with
\* the hash of the transfer.
ReturnedWith(h) ==
    /\ h \in hist.handedBack
    /\ \E i \in 1..Len(hist.issued) : hist.issued[i].hash = h /\ hist.issued[i].real

BatchTaken == blockEvents' # blockEvents /\ transactions' # transactions

Prepended == SubSeq(transactions', 1, Len(transactions') - Len(transactions))

C21_ChainDiscoveryWrite ==
    [][BatchTaken =>
          /\ transactions' = Prepended \o transactions
          /\ \A b \in blockEvents \ blockEvents' : \A i \in 1..Len(blocks[b]) :
                toLowerCase(blocks[b][i]) \notin processedTransactionHashes =>
                    /\ \E k \in 1..Len(Prepended) : Prepended[k].hash = blocks[b][i]
                    /\ (db /\ transactionModel) => findByHash(store', blocks[b][i])]_vars

\* C22: when a 'block' listener ends, no record whose hash is, in lower case, in
\* processedTransactionHashes has been added to the cache, and if every hash of
\* the block is processed the cache, the processed set and the store are as before.
ListenerEnds == blockEvents' # blockEvents /\ blockEvents' \subseteq blockEvents

IsProcessed(h) == toLowerCase(h) \in processedTransactionHashes

C22_ProcessedDiscarded ==
    [][ListenerEnds =>
          \A b \in blockEvents \ blockEvents' :
              /\ \A i \in 1..Len(blocks[b]) :
                    IsProcessed(blocks[b][i]) =>
                        HashCount(transactions', blocks[b][i])
                            = HashCount(transactions, blocks[b][i])
              /\ (\A i \in 1..Len(blocks[b]) : IsProcessed(blocks[b][i])) =>
                    /\ transactions' = transactions
                    /\ processedTransactionHashes' = processedTransactionHashes
                    /\ store' = store]_vars

\* a batch holding only the hash of a returned payment was delivered, and the
\* cache holds the payment's record alone under that hash
C22_Witness ==
    /\ hist.lateDelivered # {} /\ blockEvents = {}
    /\ \A h \in hist.lateDelivered :
          /\ HashCount(transactions, h) = 1
          /\ \E i \in 1..Len(transactions) :
                transactions[i].hash = h /\ transactions[i].id[1] = "UPI"

StoreIOStarts == pay.pc \in {"recorder", "sending"} /\ pay'.pc = "find"

EndsUnwritten ==
    /\ pay.pc \in {"recorder", "sending", "find", "insert"} /\ pay'.pc = "idle"
    /\ Len(hist'.issued) > 0 /\ store' = store
    /\ hist'.payOutcome \notin {"threw", "threwMalformed"}

Latest(h) == h.issued[Len(h.issued)]

C24_CachedBeforeStore ==
    [][/\ StoreIOStarts =>
             /\ toLowerCase(pay'.rec.hash) \in processedTransactionHashes'
             /\ Head(transactions') = pay'.rec
       /\ EndsUnwritten =>
             /\ \E i \in 1..Len(transactions') :
                   transactions'[i].hash = Latest(hist').hash
                       /\ transactions'[i].id[1] = "UPI"
             /\ Latest(hist').hash \in hist'.handedBack]_vars

\* C25: a store-backed read returns the store page and the cache merged by id:
\* every id of either source appears exactly once (the merged list fits the
\* page), a record whose id the cache holds is the cache's record, any other
\* record is the store page's.
MergeReturns == get.pc = "sum" /\ get'.pc = "respond" /\ get'.mode = "store"
IdsOf(list) == {list[i].id : i \in 1..Len(list)}
\* the record Map.set leaves under an id: the last one of the list
LastWithId(list, id) ==
    list[CHOOSE i \in 1..Len(list) :
            list[i].id = id /\ \A j \in 1..Len(list) : list[j].id = id => j <= i]
C25_MergeOnRead ==
    [][MergeReturns =>
          LET page == toBlockchainTransactions(get.dbTx)
              res == get'.result
          IN  /\ \A i, j \in 1..Len(res) : res[i].id = res[j].id => i = j
              /\ Cardinality(IdsOf(page) \cup IdsOf(transactions)) <= PageLimit
                    => IdsOf(res) = IdsOf(page) \cup IdsOf(transactions)
              /\ \A i \in 1..Len(res) :
                    IF res[i].id \in IdsOf(transactions)
                    THEN res[i] = LastWithId(transactions, res[i].id)
                    ELSE res[i] = LastWithId(page, res[i].id)]_vars
\* a response whose list shows the cache's copy of a record the store holds
\* in another state
C25_Witness ==
    /\ get.pc = "respond" /\ get.mode = "store"
    /\ \E i \in 1..Len(get.result), k \in 1..Len(store) :
          /\ store[k].id = get.result[i].id
          /\ toBlockchainTransaction(store[k]) # get.result[i]

\* C26: when getTransactions returns, from the store path or from the fallback
\* path, the cache holds at most 50 records and is the list that was returned.
ReadReturns == get.pc # "respond" /\ get'.pc = "respond"
C26_BoundedCache ==
    [][ReadReturns =>
          /\ Len(transactions') <= PageLimit
          /\ transactions' = get'.result]_vars

\* C27: two records of the ledger, in the cache or in the store, that carry
\* different hashes carry different ids.
Created == Range(transactions) \cup Range(toBlockchainTransactions(store))
C27_UniqueIds ==
    \A r1, r2 \in Created : r1.hash # r2.hash => r1.id # r2.id

\* C28: in every response of getTransactions, totalTransactions is at least the
\* number of records in the list.
C28_TotalCoversList ==
    get.pc = "respond" => get.totalTransactions >= Len(get.result)

\* C29: a list of amounts in native-token form ("0.0001 MATIC") sums to the
\* magnitudes times 1, in the store aggregator and in the cache aggregator.
NativeToken(str) == includes(str, " ")
C29_NativeTokenTimesOne ==
    (/\ calc.pc = "summed" /\ calc.amounts # <<>>
     /\ \A i \in 1..Len(calc.amounts) : NativeToken(calc.amounts[i])) =>
        /\ calc.store.v = RuleSum(calc.amounts)
        /\ calc.cache.v = RuleSum(calc.amounts)

\* the relaxed configuration is tried only as the second attempt, after the strict
\* one failed; when it fails too, the call has thrown and no handle is set
RelaxedLast ==
    /\ \A i \in 1..Len(conn.tried) :
          conn.tried[i].config = "relaxed" =>
              /\ i = 2
              /\ conn.tried[1] = [config |-> "strict", result |-> "failed"]
    /\ (Len(conn.tried) = 2 /\ conn.tried[2].result = "failed") =>
          conn.pc = "idle" /\ conn.outcome = "threw" /\ ~db

\* C30, as stated: in every connectToDatabase call the first connection attempt
\* is made under the strict configuration; the relaxed configuration is tried only
\* after the strict attempt failed, and once; when the relaxed attempt fails too,
\* the call fails and no database handle is set.
C30_StrictThenRelaxed ==
    /\ conn.tried # <<>> => conn.tried[1].config = "strict"
    /\ RelaxedLast

\* C30, amended: the same for the calls made with a mongodb+srv:// URI; a call
\* with a mongodb:// URI makes one attempt, under neither configuration.
C30_SrvStrictThenRelaxed ==
    /\ (conn.scheme = "mongodb+srv://" /\ conn.tried # <<>>) =>
          conn.tried[1].config = "strict"
    /\ conn.scheme = "mongodb://" =>
          Len(conn.tried) <= 1 /\ \A i \in 1..Len(conn.tried) : conn.tried[i].config = "none"
    /\ RelaxedLast

\* C30 witness: both attempts of a call failed.
C30_Witness ==
    /\ Len(conn.tried) = 2
    /\ conn.tried[1] = [config |-> "strict", result |-> "failed"]
    /\ conn.tried[2] = [config |-> "relaxed", result |-> "failed"]
    /\ conn.outcome = "threw" /\ ~db

(* ---------- the chain monitor over several blocks ---------- *)
\* blocks the network mines while the monitor is observed
MaxMined == 2

\* what getTransactionReceipt gives the listener: a receipt with status 1, none,
\* or a receipt with status 0
ReceiptsSeen == ReceiptKinds \cup {"reverted"}

InitMonitor == InitIndex /\ walletKey

NextMonitor ==
    \/ BootAttemptOk
    \/ BootAttemptFail
    \/ BootWaitDone
    \/ RetryTick
    \/ MineBlockWithin(MaxMined, BOOLEAN)
    \/ ConnectWallet
    \/ StartMonitoring
    \/ \E b \in 1..MaxMined, receipt \in ReceiptsSeen : MonitorBlock(b, receipt)
    \/ \E b \in 1..MaxMined : MonitorNoBatch(b)
    \/ \E b \in 1..MaxMined : MonitorCatch(b)
    \/ \E w \in {"startup"} : LoadLatest(w)
    \/ \E w \in {"startup"}, outcome \in Outcomes, receipt \in ReceiptKinds :
          LoadFinish(w, outcome, receipt)
    \/ stopMonitoring

SpecMonitor == InitMonitor /\ [][NextMonitor]_vars

\* block b holds a transaction the wallet sent or received
HasWalletTx(b) == \E i \in 1..Len(blocks[b]) : IsWalletTx(blocks[b][i])

\* C31: an error in the listener of one block is swallowed: the step ends that
\* listener and changes nothing else, the subscription stays as it was; after such
\* an error every block mined while the subscription is active still raises the
\* listener, and a raised listener of a block with a wallet transaction can hand
\* its batch to the callback
C31_MonitorResilience ==
    /\ [](\A b \in blockEvents :
             (hist.failedBlocks # {} /\ HasWalletTx(b)) => ENABLED MonitorBlock(b, "success"))
    /\ [][/\ hist'.failedBlocks # hist.failedBlocks =>
               /\ monitorOn' = monitorOn
               /\ UNCHANGED <<transactions, store, processedTransactionHashes, service,
                              blocks, load>>
          /\ (monitorOn /\ hist.failedBlocks # {} /\ Len(blocks') > Len(blocks)) =>
               Len(blocks') \in blockEvents']_vars

\* the listener of block 1 failed, the monitor is still subscribed and the batch
\* of block 2 reached the callback afterwards
C31_Witness ==
    /\ monitorOn
    /\ hist.batch # <<>>
    /\ hist.batch.block = 2
    /\ hist.batch.failed = {1}

\* C32: every batch handed to the callback is non-empty, each of its records is
\* a transaction of the batch's block whose sender or recipient is the wallet
\* address in any letter case, and a record is verified exactly when the receipt
\* fetched for it had the success status, pending otherwise
C32_BatchContent ==
    hist.batch # <<>> =>
        /\ hist.batch.records # <<>>
        /\ \A i \in 1..Len(hist.batch.records) :
              LET tx == hist.batch.records[i]
              IN  /\ \E j \in 1..Len(blocks[hist.batch.block]) :
                        tx.hash = blocks[hist.batch.block][j]
                  /\ \/ LowerAddress(TxFrom(tx.hash)) = LowerAddress(WalletAddress)
                     \/ LowerAddress(TxTo(tx.hash)) = LowerAddress(WalletAddress)
                  /\ tx.status \in {"verified", "pending"}
                  /\ tx.status = "verified" <=> hist.batch.receipt = "success"

\* a batch from a block that also held a stranger's transfer, fetched with a
\* receipt of status 0, reached the callback
C32_Witness ==
    /\ hist.batch # <<>>
    /\ hist.batch.receipt = "reverted"
    /\ \E j \in 1..Len(blocks[hist.batch.block]) :
          ~IsWalletTx(blocks[hist.batch.block][j])
    /\ Len(hist.batch.records) < Len(blocks[hist.batch.block])

(* ---------- fetchTransactions block by block ---------- *)
\* the highest block number of the observed chains
MaxHeight == 51

Heights == {0, 1, 2, BlocksToCheck, MaxHeight}

\* the limit argument: loadRealTransactions passes 50
Limits == {0, 1, 3, PageLimit}

\* what every block of the observed chain holds
Layouts == {"empty", "wallet", "mixed", "pair"}

\* block.transactions of block n
BlockAt(layout, n) ==
    CASE layout = "wallet" -> <<ExternalHash(n)>>
      [] layout = "mixed" -> <<ForeignHash(n), ExternalHash(n)>>
      [] layout = "pair" -> <<ChainHash(n), ExternalHash(n)>>
      [] OTHER -> <<>>

\* a per-block catch that leaves the loop
blockErrorCatchBreaks(error) == "break"

\* fetchTransactions: catch (blockError) { continue }
blockErrorCatch(error) == "continue"

\* fetchTransactions is called: the provider and the wallet are there, the
\* transaction count and the latest block number are fetched
WalkStart(layout, latest, limit, failing, after) ==
    /\ walk.pc = "idle"
    /\ walk' = [IdleWalk EXCEPT !.pc = "loop", !.layout = layout, !.latest = latest,
                                !.limit = limit, !.failing = failing, !.after = after]
    /\ UNCHANGED <<conn, calc, add, variant, walletKey, boot, db, uniqueIndex, store, service,
                   transactionModel, retry, chainPc, wallet, isRealBlockchainConnected,
                   monitorOn, blockEvents, blocks, mempool, extCount, transactions,
                   processedTransactionHashes, pay, payCount, get, mig, load, hist>>

\* getTransactionCount or getBlockNumber throws: the outer catch returns []
WalkThrows ==
    /\ walk.pc = "idle"
    /\ walk' = [IdleWalk EXCEPT !.pc = "threw"]
    /\ UNCHANGED <<conn, calc, add, variant, walletKey, boot, db, uniqueIndex, store, service,
                   transactionModel, retry, chainPc, wallet, isRealBlockchainConnected,
                   monitorOn, blockEvents, blocks, mempool, extCount, transactions,
                   processedTransactionHashes, pay, payCount, get, mig, load, hist>>

\* Math.min(50, latestBlock)
blocksToCheck(latestBlock) == IF BlocksToCheck < latestBlock THEN BlocksToCheck ELSE latestBlock

\* one test of the for condition and, when it holds, one pass of the body: block
\* latestBlock - i is fetched and its wallet transactions are pushed up to the
\* limit; a block at a failing offset throws after `after` of its transactions
WalkStep ==
    /\ walk.pc = "loop"
    /\ IF walk.i < blocksToCheck(walk.latest) /\ Len(walk.out) < walk.limit
       THEN LET blockNumber == walk.latest - walk.i
                throws == walk.i \in walk.failing
                hs == IF throws
                      THEN Take(BlockAt(walk.layout, blockNumber), walk.after)
                      ELSE BlockAt(walk.layout, blockNumber)
                parsed == ParseAll(hs, "success", blockNumber, walk.latest)
            IN  walk' = [walk EXCEPT
                    !.out = @ \o Take(parsed, walk.limit - Len(walk.out)),
                    !.examined = Append(@, blockNumber),
                    !.i = @ + 1,
                    !.pc = IF throws /\ blockErrorCatch("blockError") # "continue"
                           THEN "done" ELSE @]
       ELSE walk' = [walk EXCEPT !.pc = "done"]
    /\ UNCHANGED <<conn, calc, add, variant, walletKey, boot, db, uniqueIndex, store, service,
                   transactionModel, retry, chainPc, wallet, isRealBlockchainConnected,
                   monitorOn, blockEvents, blocks, mempool, extCount, transactions,
                   processedTransactionHashes, pay, payCount, get, mig, load, hist>>

NextWalk ==
    \/ \E layout \in Layouts, latest \in Heights, limit \in Limits,
          failing \in SUBSET {0, 1}, after \in {0, 1} :
          /\ failing = {} => after = 0
          /\ WalkStart(layout, latest, limit, failing, after)
    \/ WalkThrows
    \/ WalkStep

InitWalk == InitIndex /\ walletKey

SpecWalk == InitWalk /\ [][NextWalk]_vars

\* C33: a fetchTransactions call ends after at most min(50, latest) + 1 tests of
\* its loop condition; the blocks it examines are latest, latest - 1, ... and
\* number at most min(50, latest); it never holds more than limit records; and it
\* ends only with the limit reached or all min(50, latest) blocks examined, also
\* when a block threw
C33_BoundedBackfill ==
    /\ [](/\ Len(walk.examined) <= blocksToCheck(walk.latest)
          /\ Len(walk.examined) <= BlocksToCheck
          /\ \A k \in 1..Len(walk.examined) :
                /\ walk.examined[k] = walk.latest - k + 1
                /\ walk.examined[k] >= 1
          /\ walk.limit >= 0 => Len(walk.out) <= walk.limit
          /\ walk.pc = "done" =>
                \/ Len(walk.out) >= walk.limit
                \/ Len(walk.examined) = blocksToCheck(walk.latest)
          /\ walk.pc = "threw" => walk.out = <<>>)
    /\ [][walk.pc = "loop" =>
              \/ walk'.pc = "done"
              \/ /\ walk'.pc = "loop"
                 /\ walk'.i = walk.i + 1
                 /\ walk'.i <= blocksToCheck(walk.latest)]_vars

\* a walk over a chain of more than 50 blocks whose latest block threw ended
\* after 50 blocks, short of the limit, with the records of the other blocks
C33_Witness ==
    /\ walk.pc = "done"
    /\ walk.latest > BlocksToCheck
    /\ 0 \in walk.failing
    /\ Len(walk.examined) = BlocksToCheck
    /\ Len(walk.out) = BlocksToCheck - 1
    /\ Len(walk.out) < walk.limit

\* C34: when migrateTransactionsToMongoDB finishes, every record of the array it
\* iterated (the cache at its start, with what was unshifted into it) and every
\* record the cache held just before is in the store or in the cache
C34_MigrationKeepsRecords ==
    [][(mig.pc # "idle" /\ mig'.pc = "idle") =>
           \A h \in HashesOf(mig.arr) \cup HashesOf(transactions) :
               h \in HashesOf(store') \cup HashesOf(transactions')]_vars

\* C35: when a loadRealTransactions call completes, the records recordUPIPayment
\* or the monitor callback put in the cache while that call was in flight, and
\* that the cache still held, are in the cache afterwards
C35_BackfillKeepsLive ==
    [][\A w \in {"startup", "read"} :
           (load[w].pc = "walk" /\ load'[w].pc = "idle") =>
               \A h \in hist.placed[w] \cap HashesOf(transactions) :
                   h \in HashesOf(transactions')]_vars

\* C36: over the same records the store aggregator and the cache aggregator give
\* the same total, so the displayed totalAid is the same in both modes
C36_AggregatesAgree ==
    calc.pc = "summed" =>
        /\ calc.store = calc.cache
        /\ formatAidAmount(calc.store) = formatAidAmount(calc.cache)

\* C37: no batch reaches the callback after stopMonitoring has returned: every
\* batch was handed over while the listener was still subscribed
C37_NoDeliveryAfterStop == hist.batch # <<>> => hist.batch.on

\* C38: a service has at most one store-retry interval that was not cleared, also
\* after reinitializeMongoDB was called while the constructor's interval was
\* running
C38_SingleRetryTimer == ActiveIntervals(retry) <= 1

\* the interval of the latest initializeMongoDB call ticks
IntervalFires == retry'.retryCount = retry.retryCount + 1

\* C39: a tick of the service's interval that finds a database handle sets the
\* model, starts the migration and clears the interval; a tick that finds none
\* clears it exactly when it is the 15th; a cleared interval never ticks again
\* (only a later initializeMongoDB call without a handle starts a new one)
C39_IntervalTerminates ==
    [][/\ retry.retryCount <= serviceMaxRetries
       /\ (retry.active /\ IntervalFires) =>
             IF db
             THEN /\ ~retry'.active
                  /\ transactionModel'
                  /\ mig' = StartedMigration(TRUE, transactions)
             ELSE retry'.active <=> retry'.retryCount < serviceMaxRetries
       /\ ~retry.active =>
             \/ (retry'.active = retry.active /\ retry'.retryCount = retry.retryCount)
             \/ (~db /\ retry'.active /\ retry'.retryCount = 0)]_vars

\* the interval ticked several times without a handle and was cleared by the
\* tick that found one, before its 15th
C39_Witness ==
    /\ ~retry.active
    /\ retry.retryCount \in 3..(serviceMaxRetries - 1)
    /\ db /\ transactionModel

(* ---------- the earlier bootstrap with a wallet key ---------- *)
\* every operation of the service next to the monitor, while the startup
\* backfill is still fetching
InitLedger == Init /\ variant = "legacy" /\ walletKey

NextLedger ==
    \/ LegacyAttemptOk
    \/ \E outcome \in Outcomes : LegacyIndexes(outcome)
    \/ LegacyAttemptFail
    \/ reinitializeMongoDB
    \/ LegacyMigrate
    \/ RetryTick
    \/ \E outcome \in Outcomes : MigFind(outcome)
    \/ \E outcome \in Outcomes : MigInsert(outcome)
    \/ \E outcome \in Outcomes : MigReload(outcome)
    \/ MineBlock
    \/ ConnectWallet
    \/ StartMonitoring
    \/ \E b \in 1..MaxBlocks, receipt \in ReceiptKinds : MonitorBlock(b, receipt)
    \/ \E b \in 1..MaxBlocks : MonitorNoBatch(b)
    \/ \E ref \in Refs, amount \in Amounts : PayStart(ref, amount)
    \/ PaySubmit
    \/ PayFallback
    \/ PayConfirmed
    \/ \E outcome \in Outcomes : PayFind(outcome)
    \/ \E outcome \in Outcomes : PayInsert(outcome)
    \/ GetStart
    \/ GetFindAll
    \/ GetCount
    \/ GetMerge
    \/ GetRespond

SpecLedger == InitLedger /\ [][NextLedger]_vars

\* the hashes of the records the recorder returned to recordUPIPayment, lower-cased
IssuedHashes == {toLowerCase(hist.issued[i].hash) : i \in 1..Len(hist.issued)}

\* C40: processedTransactionHashes only grows; its elements are the lower-cased
\* hashes of the records the recorder returned to recordUPIPayment; and it
\* changes only in the step of recordUPIPayment that registers such a hash, not
\* in a step of the monitor callback, of getTransactions, of the migration or of
\* reinitializeMongoDB
C40_ProcessedDiscipline ==
    /\ [](processedTransactionHashes = IssuedHashes)
    /\ [][/\ processedTransactionHashes \subseteq processedTransactionHashes'
          /\ processedTransactionHashes' # processedTransactionHashes =>
                /\ pay.pc \in {"recorder", "sending"}
                /\ Len(hist'.issued) = Len(hist.issued) + 1
                /\ processedTransactionHashes' = processedTransactionHashes
                       \cup {toLowerCase(hist'.issued[Len(hist'.issued)].hash)}
                /\ UNCHANGED <<blockEvents, get, boot, store>>
                /\ mig'.pc = mig.pc]_vars

\* a payment's hash is registered, and the monitor callback has taken a record
\* whose hash is not, a list request has been answered and the migration and
\* the re-initialisation have run
C40_Witness ==
    /\ processedTransactionHashes # {}
    /\ hist.batch # <<>>
    /\ \E i \in 1..Len(hist.batch.records) :
          /\ toLowerCase(hist.batch.records[i].hash) \notin processedTransactionHashes
          /\ \E k \in 1..Len(transactions) : transactions[k].hash = hist.batch.records[i].hash
    /\ boot.pc = "done" /\ db /\ transactionModel
    /\ get.pc = "respond"
====
